---- MODULE Spec2Model ----
(***************************************************************************)
(* A state-machine model of the story-teller log triage backend.           *)
(*                                                                         *)
(* The module holds several sub-systems, each with its own specification:  *)
(*   SpecStory   - GeminiAgent.request: the LLM narrative retry loop       *)
(*   SpecUpload  - Service.upload behind POST /upload                      *)
(*   SpecBatch   - the preprocessor's /ingest and /ingest/batch handlers   *)
(*   SpecBridge  - UnifiedRealtimeClusterEngine (realtime -> cluster)      *)
(*   SpecCluster - ClusterAnalyzer.analyze_cluster and its axis analyzers  *)
(* Scores that the code keeps as floats are kept as integers in            *)
(* thousandths (1000 = 1.0).                                               *)
(***************************************************************************)
EXTENDS Integers, Sequences, FiniteSets, TLC

VARIABLES
    \* ---- GeminiAgent.request (facade/gemini_agent.py) ----
    g_pc,            \* "idle" | "loop" | "done" | "fatal"
    g_attempt,       \* the loop variable `attempt`
    g_calls,         \* calls of chat_completion made by this request
    g_backend,       \* calls of the LLM SDK made inside chat_completion
    g_topk,          \* top_k of the risk summary inside `messages`
    g_strict,        \* system prompt carries the "JSON only" suffix
    g_lastErr,       \* kind of last_err: "none" | "upstream" | "quota" | "parse" | "schema"
    g_outcomes,      \* per attempt made: <<model_to_use, outcome>>, outcome being
                     \* "upstream" | "quota" | "parse" | "schema" | "written"
    g_wrote,         \* number of write_text calls made by this request
    g_cand,          \* the candidate parsed by the latest attempt, or NoCand
    storyFile,       \* content of facade/data/story_output.json
    \* ---- preprocessor handlers (service/preprocessor/api.py, facade/processor_agent.py) ----
    p_files,         \* the uploaded files of the call, a sequence of [ext, body]
    p_op,            \* handler that ran: "none" | "ingest" | "ingest_batch" | "run_preprocessor_from_files"
    p_status,        \* "none" | "ok" | "http400" | "http415" | "error"
    p_from,          \* indices of the files whose rows became events of the payload
    p_skipped,       \* indices of the files left out with no error reported
    p_formats,       \* the set `formats`
    \* ---- POST /upload (interfaces/controller.py, service/service.py) ----
    u_pc,            \* position of the upload call
    u_trace,         \* the stages the running or last call entered, in order
    u_failed,        \* the stage that raised in it, or "none"
    u_result,        \* what Service.upload returned
    u_body,          \* the HTTP response body of the call
    processorFile,   \* facade/data/processor_output.json
    clusterFile,     \* facade/data/cluster_output_2.json
    u_reads,         \* the files the stages of the call have read, in order
    u_writer,        \* per path: who wrote it since the call was accepted
    o_pc,            \* position of another upload call on the same Service
    riskFile,        \* facade/risk/risk_output.json
    riskDataFile,    \* facade/data/risk_output.json
    \* ---- UnifiedRealtimeClusterEngine (service/anomaly/realtime_cluster_engine.py) ----
    b_ca,            \* the cluster analyzer of the engine: "default" | "injected"
    b_now,           \* time.time(), in seconds
    b_events,        \* user key -> UserBuffer.events, a sequence of event numbers
    b_last,          \* user key -> UserBuffer.last_flush_ts
    b_serial,        \* number of events appended to buffers so far
    b_rtSeen,        \* number of events handed to the realtime detector so far
    b_poisoned,      \* user keys whose detector windows hold a datetime
    b_call,          \* what the last call of the engine did
    b_cap,           \* user_buffer_max_events the engine was built with
    b_appended,      \* user key -> every event number ever added to its buffer
    \* ---- ClusterAnalyzer (service/clustering) ----
    c_config,        \* the AnalysisConfig of the analyzer
    c_events,        \* the events handed to analyze_cluster
    c_out,           \* what analyze_cluster did with them
    c_detail,        \* what the last detail call did with them
    \* ---- score_groups, policy v0.3 (facade/risk/risk_scorer2.py) ----
    r_events,        \* the events handed to score_groups, in list order
    r_anomaly,       \* anomaly_score_lookup: -1 for None, else the value of every cluster id
    r_out,           \* what score_groups returned
    \* ---- compute_score, policy v0.2 (service/risk/risk_scorer.py) ----
    s_cluster,       \* the cluster dict handed to compute_score
    s_out,           \* what compute_score did with it
    \* ---- EventClusterer (service/categorizer/event_clustering.py) ----
    e_logs,          \* the logs handed to cluster_events
    e_counter,       \* EventClusterer.cluster_counter
    e_passes,        \* calls of cluster_events made on this instance
    e_clusters,      \* the list the last call returned
    e_issued,        \* the numbers of the cluster ids created so far, in order
    \* ---- LogProcessor.validate_event_data (clustering/utils.py) ----
    v_in,            \* the event_data dict as the caller built it
    v_record,        \* the same dict object, as the call leaves it
    v_out,           \* what validate_event_data did with it
    \* ---- SlidingCounter of one key (anomaly/realtime_detector.py) ----
    w_events,        \* SlidingCounter.events[key], head first
    w_ts,            \* the timestamp of the last add, 0 before the first
    w_adds,          \* calls of add made so far
    \* ---- BurstDetector state of one key under concurrent requests ----
    d_window,        \* BurstDetector.window.events[key], head first
    d_state,         \* BurstDetector.baseline.state[key]
    d_thr,           \* worker thread -> its position in update and its locals
    \* ---- the stream endpoints (anomaly/router.py) ----
    k_conn,          \* WebSocket -> how far its handler is
    active_sockets_legacy,   \* router.active_sockets_legacy
    active_sockets_unified   \* router.active_sockets_unified

storyVars == <<g_pc, g_attempt, g_calls, g_backend, g_topk, g_strict, g_lastErr,
               g_outcomes, g_wrote, g_cand, storyFile>>

prepVars == <<p_files, p_op, p_status, p_from, p_skipped, p_formats>>
bridgeVars == <<b_ca, b_now, b_events, b_last, b_serial, b_rtSeen, b_poisoned, b_call,
                b_cap, b_appended>>
clusterVars == <<c_config, c_events, c_out, c_detail>>
riskVars == <<r_events, r_anomaly, r_out>>
scoreVars == <<s_cluster, s_out>>
eventVars == <<e_logs, e_counter, e_passes, e_clusters, e_issued>>
validateVars == <<v_in, v_record, v_out>>
windowVars == <<w_events, w_ts, w_adds>>
detectVars == <<d_window, d_state, d_thr>>
streamVars == <<k_conn, active_sockets_legacy, active_sockets_unified>>
uploadVars == <<u_pc, u_trace, u_failed, u_result, u_body, u_reads, u_writer, o_pc,
                processorFile, clusterFile, riskFile, riskDataFile>>

-----------------------------------------------------------------------------
(* GeminiAgent.request                                                     *)

\* max_retries = 3 (gemini_agent.py:67)
max_retries == 3
\* retries: int = 2, the inner loop of chat_completion (story_llm.py:38)
retries == 2
\* top_k=8 of the first risk summary (gemini_agent.py:77)
InitialTopK == 8

NoFile == [kind |-> "absent"]
OldFile == [kind |-> "old"]
OldStory == OldFile
NoCand == [kind |-> "none"]

\* fallback_models (gemini_agent.py:95) and model_to_use (gemini_agent.py:101)
fallback_models == <<"gemini-1.5-flash", "gemini-1.5-flash", "gemini-1.5-flash-8b">>

Min(a, b) == IF a <= b THEN a ELSE b
Max(a, b) == IF a >= b THEN a ELSE b

model_to_use(attempt) == fallback_models[Min(attempt, Len(fallback_models) - 1) + 1]

\* The keys every item of "LLM 응답" must carry (gemini_agent.py:252).
\* 현재상황, 예상시나리오, 심각도, 위험도점수, 추정정확도, 영향범위, 근거, 권장대응
RequiredKeys == {"situation", "scenario", "severity", "risk_score", "accuracy",
                 "scope", "evidence", "actions"}

\* A well-formed answer of the LLM, after _first_json and json.loads.
\*   json     "ok" | "bad"            json.loads succeeds or raises
\*   top      "object" | "array"      type of the top-level value
\*   hasKey   "LLM 응답" in obj
\*   arr      "notlist" | "empty" | "one"   obj["LLM 응답"]
\*   keys     keys present in the item
\*   actions  권장대응: "notlist" | "empty" | "numbered" | "unnumbered" | "blank"
\*   scope    영향범위: "notlist" | "empty" | "nonempty"
\*   evidence 근거:     "notlist" | "empty" | "nonempty"
\*   scoreNum / score     위험도점수 is a number / its value in tenths
\*   accNum / acc         추정정확도 is a number / its value in hundredths
GoodResponse ==
    [kind |-> "story", json |-> "ok", top |-> "object", hasKey |-> TRUE, arr |-> "one",
     keys |-> RequiredKeys, actions |-> "numbered", scope |-> "nonempty",
     evidence |-> "nonempty", scoreNum |-> TRUE, score |-> 75,
     accNum |-> TRUE, acc |-> 80]

\* The answers the backend may give: the good one and every answer that
\* differs from it in one respect.
Responses ==
    {GoodResponse}
    \cup {[GoodResponse EXCEPT !.json = "bad"]}
    \cup {[GoodResponse EXCEPT !.top = "array"]}
    \cup {[GoodResponse EXCEPT !.hasKey = FALSE]}
    \cup {[GoodResponse EXCEPT !.arr = a] : a \in {"notlist", "empty"}}
    \cup {[GoodResponse EXCEPT !.keys = RequiredKeys \ {k}] : k \in RequiredKeys}
    \cup {[GoodResponse EXCEPT !.actions = a] :
             a \in {"notlist", "empty", "unnumbered", "blank"}}
    \cup {[GoodResponse EXCEPT !.scope = a] : a \in {"notlist", "empty"}}
    \cup {[GoodResponse EXCEPT !.evidence = a] : a \in {"notlist", "empty"}}
    \cup {[GoodResponse EXCEPT !.scoreNum = FALSE]}
    \cup {[GoodResponse EXCEPT !.score = s] : s \in {-1, 0, 100, 101}}
    \cup {[GoodResponse EXCEPT !.accNum = FALSE]}
    \cup {[GoodResponse EXCEPT !.acc = s] : s \in {-1, 0, 100, 101}}

\* all(isinstance(x, str) and (x.strip().startswith("1.") or x.strip()[0].isdigit())
\*     for x in it["권장대응"])  -- all() of an empty list is True; a blank
\* string raises IndexError, which request() catches like any other failure.
actions_ok(a) == a \in {"empty", "numbered"}

\* _validate_response_json: TRUE when it returns, FALSE when it raises.
validate_response_json(obj) ==
    /\ obj.top = "object"
    /\ obj.hasKey
    /\ obj.arr = "one"
    /\ RequiredKeys \subseteq obj.keys
    /\ actions_ok(obj.actions)
    /\ obj.scope # "notlist"
    /\ obj.evidence = "nonempty"
    /\ obj.scoreNum /\ 0 <= obj.score /\ obj.score <= 100
    /\ obj.accNum /\ 0 <= obj.acc /\ obj.acc <= 100

\* What an iteration that got the text r from chat_completion ends with.
Outcome(r) ==
    IF r.json = "bad" THEN "parse"
    ELSE IF validate_response_json(r) THEN "written" ELSE "schema"

\* risk top_k after a quota-class failure of attempt `attempt` (gemini_agent.py:122-130)
shrunk_top_k(attempt) == IF attempt = 0 THEN 5 ELSE IF attempt = 1 THEN 3 ELSE 1

StoryInit ==
    /\ g_pc = "idle"
    /\ g_attempt = 0
    /\ g_calls = 0
    /\ g_backend = 0
    /\ g_topk = InitialTopK
    /\ g_strict = FALSE
    /\ g_lastErr = "none"
    /\ g_outcomes = <<>>
    /\ g_wrote = 0
    /\ g_cand = NoCand

\* request() up to the loop: load the inputs, build the first messages.  The
\* agent is a singleton of the service, so a request may follow another.
RequestStart ==
    /\ g_pc \in {"idle", "done", "fatal"}
    /\ g_pc' = "loop"
    /\ g_attempt' = 0
    /\ g_calls' = 0
    /\ g_backend' = 0
    /\ g_topk' = InitialTopK
    /\ g_strict' = FALSE
    /\ g_lastErr' = "none"
    /\ g_outcomes' = <<>>
    /\ g_wrote' = 0
    /\ g_cand' = NoCand
    /\ UNCHANGED storyFile

\* A request() that saves a best-effort narrative when the retries run out.
AttemptFailed_best_effort(errKind) ==
    /\ g_lastErr' = errKind
    /\ IF errKind = "quota"
          THEN g_topk' = shrunk_top_k(g_attempt) /\ g_strict' = TRUE
          ELSE UNCHANGED <<g_topk, g_strict>>
    /\ IF g_attempt + 1 < max_retries + 1
          THEN /\ g_attempt' = g_attempt + 1 /\ g_pc' = "loop"
               /\ UNCHANGED <<g_wrote, storyFile>>
          ELSE /\ g_attempt' = g_attempt /\ g_pc' = "fatal"
               /\ g_wrote' = g_wrote + 1
               /\ storyFile' = [kind |-> "partial"]

\* The except branch of the loop body, then the loop's next iteration or the
\* SystemExit after it.
AttemptFailed(errKind) ==
    /\ g_lastErr' = errKind
    /\ IF errKind = "quota"
          THEN g_topk' = shrunk_top_k(g_attempt) /\ g_strict' = TRUE
          ELSE UNCHANGED <<g_topk, g_strict>>
    /\ IF g_attempt + 1 < max_retries + 1
          THEN g_attempt' = g_attempt + 1 /\ g_pc' = "loop"
          ELSE g_attempt' = g_attempt /\ g_pc' = "fatal"
    /\ UNCHANGED <<g_wrote, storyFile>>

\* One iteration in which chat_completion raises: all retries + 1 SDK calls
\* failed and it raised RuntimeError("LLM request failed: ...").  The text of
\* the error decides whether the quota branch is taken.
AttemptUpstreamFailure ==
    /\ g_pc = "loop"
    /\ \E errKind \in {"upstream", "quota"} :
          /\ g_calls' = g_calls + 1
          /\ g_backend' = g_backend + (retries + 1)
          /\ g_outcomes' = Append(g_outcomes, <<model_to_use(g_attempt), errKind>>)
          /\ g_cand' = NoCand
          /\ AttemptFailed(errKind)

\* One iteration in which chat_completion returns a text (after k SDK
\* calls), and the text is parsed, validated and, if valid, written.
AttemptResponse ==
    /\ g_pc = "loop"
    /\ \E k \in 1..(retries + 1), r \in Responses :
          /\ g_calls' = g_calls + 1
          /\ g_backend' = g_backend + k
          /\ g_outcomes' = Append(g_outcomes, <<model_to_use(g_attempt), Outcome(r)>>)
          /\ IF r.json = "bad"
                THEN /\ g_cand' = NoCand
                     /\ AttemptFailed("parse")
                ELSE /\ g_cand' = r
                     /\ IF validate_response_json(r)
                           THEN /\ storyFile' = r
                                /\ g_wrote' = g_wrote + 1
                                /\ g_pc' = "done"
                                /\ UNCHANGED <<g_attempt, g_topk, g_strict, g_lastErr>>
                           ELSE AttemptFailed("schema")

StoryNext == RequestStart \/ AttemptUpstreamFailure \/ AttemptResponse

-----------------------------------------------------------------------------
(* Preprocessor: _rows_from_file, ingest, ingest_batch and the Processor  *)
(* Agent's run_preprocessor_from_files                                     *)

\* Longest list of uploaded files explored.
MaxFiles == 2

\* ALLOWED_EXTS (api.py:26)
ALLOWED_EXTS == {".csv", ".log", ".txt"}

\* The uploaded files explored, each an extension and a body.  Bodies:
\*   "csv_rows"    a CSV table with a header and timestamped rows
\*   "text_rows"   plain text lines that start with a timestamp
\*   "empty"       zero bytes
\*   "csv_broken"  a CSV table on which the csv reader raises csv.Error
\*   "binary"      bytes that are no text: decoded with errors ignored, no
\*                 line of the result carries a timestamp
FileKinds ==
    {[ext |-> ".csv", body |-> "csv_rows"], [ext |-> ".log", body |-> "text_rows"],
     [ext |-> ".log", body |-> "csv_rows"], [ext |-> ".log", body |-> "empty"],
     [ext |-> ".csv", body |-> "csv_broken"], [ext |-> ".log", body |-> "binary"],
     [ext |-> ".txt", body |-> "text_rows"], [ext |-> ".exe", body |-> "text_rows"]}

FileLists == UNION {[1..n -> FileKinds] : n \in 1..MaxFiles}

\* _looks_like_csv(text) (api.py:42-56)
looks_like_csv(body) == body \in {"csv_rows", "csv_broken"}

\* _rows_from_file(name, raw_bytes) (api.py:58-78): what the call ends with.
\*   [out |-> "http400"]              HTTPException(400, "File is empty")
\*   [out |-> "raise"]                the parser raised
\*   [out |-> "rows", fmt, events]    rows returned; events = some row has a ts
rows_from_file(f) ==
    IF f.body = "empty" THEN [out |-> "http400", fmt |-> "none", events |-> FALSE]
    ELSE IF f.ext = ".csv" \/ (f.ext \in {".log", ".txt"} /\ looks_like_csv(f.body))
         THEN IF f.body = "csv_broken"
                 THEN [out |-> "raise", fmt |-> "none", events |-> FALSE]
                 ELSE [out |-> "rows", fmt |-> "csv", events |-> f.body = "csv_rows"]
         ELSE [out |-> "rows", fmt |-> "text", events |-> f.body = "text_rows"]

PrepInit ==
    /\ p_files = <<>>
    /\ p_op = "none"
    /\ p_status = "none"
    /\ p_from = {}
    /\ p_skipped = {}
    /\ p_formats = {}

\* POST /ingest (api.py:81-164), one file.
ingest(f) ==
    IF f.ext \notin ALLOWED_EXTS
       THEN [status |-> "http415", from |-> {}, skipped |-> {}, formats |-> {}]
    ELSE LET r == rows_from_file(f) IN
         IF r.out # "rows"
            THEN [status |-> "http400", from |-> {}, skipped |-> {}, formats |-> {}]
            ELSE [status |-> "ok", from |-> IF r.events THEN {1} ELSE {},
                  skipped |-> {}, formats |-> {r.fmt}]

\* POST /ingest/batch (api.py:167-239): the loop over the files from index i
\* on, acc being what the files before i gave.
RECURSIVE ingest_batch_loop(_, _, _)
ingest_batch_loop(files, i, acc) ==
    IF i > Len(files) THEN acc
    ELSE IF files[i].ext \notin ALLOWED_EXTS
            THEN [acc EXCEPT !.status = "http415"]
    ELSE LET r == rows_from_file(files[i]) IN
         IF r.out = "http400" THEN [acc EXCEPT !.status = "http400"]
         ELSE IF r.out = "raise" THEN [acc EXCEPT !.status = "error"]
         ELSE ingest_batch_loop(files, i + 1,
                 [acc EXCEPT !.from = IF r.events THEN @ \cup {i} ELSE @,
                             !.formats = @ \cup {r.fmt}])

ingest_batch(files) ==
    IF Len(files) = 0
       THEN [status |-> "http400", from |-> {}, skipped |-> {}, formats |-> {}]
       ELSE ingest_batch_loop(files, 1,
               [status |-> "ok", from |-> {}, skipped |-> {}, formats |-> {}])

\* ProcessorAgent.run_preprocessor_from_files (processor_agent.py:16-84): the
\* extension is not looked at, and any exception of _rows_from_file is
\* swallowed by `except Exception: continue`.
RECURSIVE run_preprocessor_loop(_, _, _)
run_preprocessor_loop(files, i, acc) ==
    IF i > Len(files) THEN acc
    ELSE LET r == rows_from_file(files[i]) IN
         IF r.out # "rows"
            THEN run_preprocessor_loop(files, i + 1, [acc EXCEPT !.skipped = @ \cup {i}])
            ELSE run_preprocessor_loop(files, i + 1,
                    [acc EXCEPT !.from = IF r.events THEN @ \cup {i} ELSE @,
                                !.formats = @ \cup {r.fmt}])

run_preprocessor_from_files(files) ==
    run_preprocessor_loop(files, 1,
        [status |-> "ok", from |-> {}, skipped |-> {}, formats |-> {}])

Handled(op, files, res) ==
    /\ p_op' = op
    /\ p_files' = files
    /\ p_status' = res.status
    /\ p_from' = res.from
    /\ p_skipped' = res.skipped
    /\ p_formats' = res.formats

\* A client posts one file to /v1/ingest.
PostIngest == \E f \in FileKinds : Handled("ingest", <<f>>, ingest(f))

\* A client posts files to /v1/ingest/batch.
PostIngestBatch == \E fs \in FileLists : Handled("ingest_batch", fs, ingest_batch(fs))

\* Service.upload hands the uploaded files to the Processor Agent.
RunPreprocessorFromFiles ==
    \E fs \in FileLists :
        Handled("run_preprocessor_from_files", fs, run_preprocessor_from_files(fs))

PrepNext == PostIngest \/ PostIngestBatch \/ RunPreprocessorFromFiles

-----------------------------------------------------------------------------
(* POST /upload: upload_files and Service.upload                           *)

\* The stages of Service.upload in the order of its statements.
Stages == <<"preprocess", "cluster", "risk", "narrate", "readback">>

NoResult == [kind |-> "none"]
NoBody == [kind |-> "none"]
ErrorBody == [kind |-> "error"]
\* return "Files upload API is working!" (controller.py:23)
UploadBody == [kind |-> "text", text |-> "Files upload API is working!"]

\* The paths of the hand-off files (service.py:21, 44-45; risk_agent.py:9-10;
\* gemini_agent.py:60-63).
processor_output == "facade/data/processor_output.json"
cluster_output_2 == "facade/data/cluster_output_2.json"
risk_DEFAULT_IN == "facade/risk/sample_log.txt"
risk_DEFAULT_OUT == "facade/risk/risk_output.json"
default_risk == "facade/data/risk_output.json"
default_out == "facade/data/story_output.json"
HandOffPaths ==
    {processor_output, cluster_output_2, risk_DEFAULT_IN, risk_DEFAULT_OUT,
     default_risk, default_out}

\* A stage opens a path: the entry keeps who wrote the path last since the
\* call was accepted ("none": the file is older than the call).
ReadOf(stage, path) == [stage |-> stage, path |-> path, writer |-> u_writer[path]]

UploadInit ==
    /\ u_reads = <<>>
    /\ u_writer = [p \in HandOffPaths |-> "none"]
    /\ o_pc = "idle"
    /\ u_pc = "idle"
    /\ u_trace = <<>>
    /\ u_failed = "none"
    /\ u_result = NoResult
    /\ u_body = NoBody

\* The files on disk when the server starts: each one absent, or left there
\* by an earlier run of the server or by the operator.
DiskInit(stories, clusters, risks) ==
    /\ storyFile \in stories
    /\ clusterFile \in clusters
    /\ riskDataFile \in risks
    /\ processorFile = NoFile
    /\ riskFile = NoFile

\* A Service.upload in which the exception of a stage is swallowed and the
\* call goes on with the next statement.
Raise_swallowed(stage) ==
    /\ u_pc' = (CASE stage = "preprocess" -> "preprocessed"
                  [] stage = "cluster" -> "clustered"
                  [] stage = "risk" -> "scored"
                  [] stage = "narrate" -> "narrated"
                  [] OTHER -> "failed")
    /\ u_failed' = stage
    /\ u_result' = NoResult
    /\ u_body' = IF stage = "readback" THEN ErrorBody ELSE u_body

\* A stage raises: Service.upload and upload_files have no try/except, so the
\* exception leaves both and the request fails.
Raise(stage) ==
    /\ u_pc' = "failed"
    /\ u_failed' = stage
    /\ u_result' = NoResult
    /\ u_body' = ErrorBody

\* upload_files is called; Service.upload runs the Processor Agent over the
\* files and the agent saves its payload (service.py:21).
PreprocessStage ==
    /\ u_pc = "idle"
    /\ u_trace' = <<"preprocess">>
    /\ \E fs \in FileLists, saved \in BOOLEAN :
          /\ Handled("run_preprocessor_from_files", fs, run_preprocessor_from_files(fs))
          /\ IF saved
                THEN /\ processorFile' = [kind |-> "processor"]
                     /\ u_writer' = [u_writer EXCEPT ![processor_output] = "this"]
                     /\ u_pc' = "preprocessed"
                     /\ u_failed' = "none"
                     /\ u_result' = NoResult
                     /\ u_body' = NoBody
                ELSE /\ Raise("preprocess")
                     /\ UNCHANGED <<processorFile, u_writer>>
    /\ UNCHANGED <<clusterFile, riskFile, riskDataFile, storyFile, u_reads, o_pc>>

\* self.__clustering.analyze() (service.py:29)
ClusterStage ==
    /\ u_pc = "preprocessed"
    /\ u_trace' = Append(u_trace, "cluster")
    /\ \E ok \in BOOLEAN :
          IF ok
             THEN /\ clusterFile' = [kind |-> "cluster"]
                  /\ u_writer' = [u_writer EXCEPT ![cluster_output_2] = "this"]
                  /\ u_pc' = "clustered"
                  /\ UNCHANGED <<u_failed, u_result, u_body>>
             ELSE /\ Raise("cluster")
                  /\ UNCHANGED <<clusterFile, u_writer>>
    /\ UNCHANGED <<processorFile, riskFile, riskDataFile, storyFile, u_reads, o_pc>>

\* self.__risk_agent.run() (service.py:32; risk_agent.py:12-22): the agent
\* loads the events of its DEFAULT_IN, scores them and writes its DEFAULT_OUT;
\* it raises when the load or the write does.
RiskStage ==
    /\ u_pc = "clustered"
    /\ u_trace' = Append(u_trace, "risk")
    /\ \E ok \in BOOLEAN :
          IF ok
             THEN /\ u_reads' = Append(u_reads, ReadOf("risk", risk_DEFAULT_IN))
                  /\ riskFile' = [kind |-> "risk"]
                  /\ u_writer' = [u_writer EXCEPT ![risk_DEFAULT_OUT] = "this"]
                  /\ u_pc' = "scored"
                  /\ UNCHANGED <<u_failed, u_result, u_body>>
             ELSE /\ Raise("risk")
                  /\ UNCHANGED <<riskFile, u_reads, u_writer>>
    /\ UNCHANGED <<processorFile, clusterFile, riskDataFile, storyFile, o_pc>>

\* self.__gemini_agent.request() (service.py:35): the request loads its two
\* inputs, and then either writes a narrative that passed validation or ends
\* with SystemExit.
NarrateStage ==
    /\ u_pc = "scored"
    /\ u_trace' = Append(u_trace, "narrate")
    /\ IF riskDataFile = NoFile \/ clusterFile = NoFile
          THEN /\ Raise("narrate")
               /\ UNCHANGED <<storyFile, u_reads, u_writer>>
          ELSE /\ u_reads' = u_reads \o <<ReadOf("narrate", default_risk),
                                          ReadOf("narrate", cluster_output_2)>>
               /\ \/ /\ \E r \in Responses :
                           /\ validate_response_json(r)
                           /\ storyFile' = r
                     /\ u_writer' = [u_writer EXCEPT ![default_out] = "this"]
                     /\ u_pc' = "narrated"
                     /\ UNCHANGED <<u_failed, u_result, u_body>>
                  \/ /\ Raise("narrate")
                     /\ UNCHANGED <<storyFile, u_writer>>
    /\ UNCHANGED <<processorFile, clusterFile, riskFile, riskDataFile, o_pc>>

\* getResponseData() (service.py:41-56)
getResponseData == [kind |-> "json", json1 |-> clusterFile, json2 |-> storyFile]

\* return self.getResponseData() (service.py:38), and then upload_files
\* returns (controller.py:22-23).
ReadBackStage ==
    /\ u_pc = "narrated"
    /\ u_trace' = Append(u_trace, "readback")
    /\ \E ok \in BOOLEAN :
          IF ok /\ clusterFile # NoFile /\ storyFile # NoFile
             THEN /\ u_result' = getResponseData
                  /\ u_reads' = u_reads \o <<ReadOf("readback", cluster_output_2),
                                             ReadOf("readback", default_out)>>
                  /\ u_body' = UploadBody
                  /\ u_pc' = "returned"
                  /\ UNCHANGED u_failed
             ELSE Raise("readback") /\ UNCHANGED u_reads
    /\ UNCHANGED <<processorFile, clusterFile, riskFile, riskDataFile, storyFile,
                   u_writer, o_pc>>

\* Another POST /upload is served while this one runs: upload_files is a plain
\* def, which the server runs on a worker thread, on the one Service object
\* of controller.py:7.  Each step is one stage of that call (service.py:21-35)
\* writing its fixed path, or raising.
OtherUploadStage ==
    /\ u_pc \notin {"returned", "failed"}
    /\ o_pc \in {"idle", "preprocessed", "clustered", "scored"}
    /\ \/ /\ o_pc = "idle"
          /\ processorFile' = [kind |-> "processor"]
          /\ u_writer' = [u_writer EXCEPT ![processor_output] = "other"]
          /\ o_pc' = "preprocessed"
          /\ UNCHANGED <<clusterFile, riskFile, storyFile>>
       \/ /\ o_pc = "preprocessed"
          /\ clusterFile' = [kind |-> "cluster"]
          /\ u_writer' = [u_writer EXCEPT ![cluster_output_2] = "other"]
          /\ o_pc' = "clustered"
          /\ UNCHANGED <<processorFile, riskFile, storyFile>>
       \/ /\ o_pc = "clustered"
          /\ riskFile' = [kind |-> "risk"]
          /\ u_writer' = [u_writer EXCEPT ![risk_DEFAULT_OUT] = "other"]
          /\ o_pc' = "scored"
          /\ UNCHANGED <<processorFile, clusterFile, storyFile>>
       \/ /\ o_pc = "scored"
          /\ riskDataFile # NoFile /\ clusterFile # NoFile
          /\ storyFile' = GoodResponse
          /\ u_writer' = [u_writer EXCEPT ![default_out] = "other"]
          /\ o_pc' = "narrated"
          /\ UNCHANGED <<processorFile, clusterFile, riskFile>>
       \/ /\ o_pc' = "failed"
          /\ UNCHANGED <<processorFile, clusterFile, riskFile, storyFile, u_writer>>
    /\ UNCHANGED <<u_pc, u_trace, u_failed, u_result, u_body, u_reads, riskDataFile>>

UploadNext ==
    \/ PreprocessStage /\ UNCHANGED <<g_pc, g_attempt, g_calls, g_backend, g_topk,
                                      g_strict, g_lastErr, g_outcomes, g_wrote, g_cand>>
    \/ (ClusterStage \/ RiskStage \/ NarrateStage \/ ReadBackStage \/ OtherUploadStage)
          /\ UNCHANGED <<g_pc, g_attempt, g_calls, g_backend, g_topk, g_strict,
                         g_lastErr, g_outcomes, g_wrote, g_cand, prepVars>>

-----------------------------------------------------------------------------
(* UnifiedRealtimeClusterEngine: the bridge between the realtime detector  *)
(* and the Cluster Analyzer                                                *)

\* Number of ingest calls explored.
MaxIngest == 6
\* Number of clock steps explored.
MaxTicks == 2
\* The clock at the start, and the length of a clock step, in seconds.
StartTime == 6000
TickSec == 300

\* Constructor defaults of the engine (realtime_cluster_engine.py:103-107)
trigger_on_labels == {"medium", "high"}
min_events_for_cluster == 5
periodic_flush_sec == 600
user_buffer_max_events == 400
\* A capacity small enough for a buffer to fill up within MaxIngest calls.
SmallBuffer == 5

\* User keys, labels of the realtime detector, and the shapes of the events
\* handed to ingest:
\*   "dict"          a dict, as both routes of the router pass
\*   "sec_str"       a SecurityEvent whose timestamp is an ISO string
\*   "sec_datetime"  a SecurityEvent whose timestamp is a datetime
UserKeys == {"user:alice", "user:bob"}
Labels == {"low", "medium", "high"}
EventShapes == {"dict", "sec_str", "sec_datetime"}

NoCall == [op |-> "none"]

BridgeInit ==
    /\ b_ca \in {"default", "injected"}
    /\ b_now = StartTime
    /\ b_events = [u \in UserKeys |-> <<>>]
    /\ b_last = [u \in UserKeys |-> 0]
    /\ b_serial = 0
    /\ b_rtSeen = 0
    /\ b_poisoned = {}
    /\ b_call = NoCall
    /\ b_cap \in {user_buffer_max_events, SmallBuffer}
    /\ b_ca = "default" => b_cap = user_buffer_max_events
    /\ b_appended = [u \in UserKeys |-> <<>>]

\* UserBuffer.add that never evicts
add_without_eviction(events, ev, max_events) == Append(events, ev)

\* UserBuffer.add (realtime_cluster_engine.py:76-79); a buffer is within
\* max_events before the append, so the loop pops at most once.
add(events, ev, max_events) ==
    LET appended == Append(events, ev)
    IN  IF Len(appended) > max_events THEN Tail(appended) ELSE appended

\* UserBuffer.should_time_flush (realtime_cluster_engine.py:84-85)
should_time_flush(last_flush_ts, now_ts, flush_interval_sec) ==
    (now_ts - last_flush_ts) >= flush_interval_sec

\* _run_cluster (realtime_cluster_engine.py:170-174): TRUE when it returns.
\* The default ClusterAnalyzer raises on every buffer the engine can hold: the
\* Time Analyzer subtracts the string timestamps of the buffered events.
run_cluster_returns(ca) == ca = "injected"

\* A trigger rule that runs the analyzer on a "high" event whatever the
\* buffer holds.
should_trigger_any_size(label, len, last_flush_ts, now_ts) ==
    \/ label = "high"
    \/ label \in trigger_on_labels /\ len >= min_events_for_cluster
    \/ should_time_flush(last_flush_ts, now_ts, periodic_flush_sec)
          /\ len >= min_events_for_cluster

\* The two branches of the trigger in ingest (realtime_cluster_engine.py:138-145)
should_trigger(label, len, last_flush_ts, now_ts) ==
    \/ label \in trigger_on_labels /\ len >= min_events_for_cluster
    \/ should_time_flush(last_flush_ts, now_ts, periodic_flush_sec)
          /\ len >= min_events_for_cluster

\* time.time() moves on.
Tick ==
    /\ b_now < StartTime + MaxTicks * TickSec
    /\ b_now' = b_now + TickSec
    /\ UNCHANGED <<b_ca, b_events, b_last, b_serial, b_rtSeen, b_poisoned, b_call,
                   b_cap, b_appended>>

\* ingest(event) (realtime_cluster_engine.py:120-152)
EngineIngest ==
    /\ b_rtSeen < MaxIngest
    /\ \E u \in UserKeys, shape \in EventShapes, label \in Labels :
         LET call == [op |-> "ingest", user |-> u, shape |-> shape, label |-> label,
                      now |-> b_now, lastBefore |-> b_last[u],
                      scored |-> FALSE, appended |-> FALSE, lenAfter |-> Len(b_events[u]),
                      runs |-> <<>>, flushed |-> {}, triggered |-> FALSE, raised |-> FALSE]
         IN
         /\ b_rtSeen' = b_rtSeen + 1
         /\ IF u \in b_poisoned \/ shape = "sec_datetime"
               THEN \* infer_one raises in SlidingCounter.add, the window of the
                    \* first key already changed
                    /\ b_poisoned' = b_poisoned \cup {u}
                    /\ b_call' = [call EXCEPT !.raised = TRUE]
                    /\ UNCHANGED <<b_events, b_last, b_serial, b_appended>>
               ELSE IF shape = "dict"
               THEN \* _ensure_security_event raises TypeError
                    /\ b_call' = [call EXCEPT !.scored = TRUE, !.raised = TRUE]
                    /\ UNCHANGED <<b_events, b_last, b_serial, b_poisoned, b_appended>>
               ELSE LET buf == add(b_events[u], b_serial + 1, b_cap)
                        trig == should_trigger(label, Len(buf), b_last[u], b_now)
                        ok == run_cluster_returns(b_ca)
                    IN  /\ b_events' = [b_events EXCEPT ![u] = buf]
                        /\ b_serial' = b_serial + 1
                        /\ b_last' = IF trig /\ ok THEN [b_last EXCEPT ![u] = b_now]
                                                   ELSE b_last
                        /\ b_appended' = [b_appended EXCEPT ![u] = Append(@, b_serial + 1)]
                        /\ b_call' = [call EXCEPT
                               !.scored = TRUE, !.appended = TRUE, !.lenAfter = Len(buf),
                               !.runs = IF trig THEN <<Len(buf)>> ELSE <<>>,
                               !.flushed = IF trig /\ ok THEN {u} ELSE {},
                               !.triggered = trig /\ ok,
                               !.raised = trig /\ ~ok]
                        /\ UNCHANGED b_poisoned
    /\ UNCHANGED <<b_ca, b_now, b_cap>>

\* A flush_user that empties the buffer it analyzed
FlushUser_draining ==
    /\ \E u \in UserKeys :
         LET run == Len(b_events[u]) >= min_events_for_cluster
             ok == run_cluster_returns(b_ca)
         IN  /\ b_last' = IF run /\ ok THEN [b_last EXCEPT ![u] = b_now] ELSE b_last
             /\ b_events' = IF run /\ ok THEN [b_events EXCEPT ![u] = <<>>] ELSE b_events
             /\ b_call' = [op |-> "flush_user", user |-> u, now |-> b_now,
                           runs |-> IF run THEN <<Len(b_events[u])>> ELSE <<>>,
                           flushed |-> IF run /\ ok THEN {u} ELSE {},
                           raised |-> run /\ ~ok]
    /\ UNCHANGED <<b_ca, b_now, b_serial, b_rtSeen, b_poisoned,
                   b_cap, b_appended>>

\* flush_user(user_key) (realtime_cluster_engine.py:154-160)
FlushUser ==
    /\ \E u \in UserKeys :
         LET run == Len(b_events[u]) >= min_events_for_cluster
             ok == run_cluster_returns(b_ca)
         IN  /\ b_last' = IF run /\ ok THEN [b_last EXCEPT ![u] = b_now] ELSE b_last
             /\ b_call' = [op |-> "flush_user", user |-> u, now |-> b_now,
                           runs |-> IF run THEN <<Len(b_events[u])>> ELSE <<>>,
                           flushed |-> IF run /\ ok THEN {u} ELSE {},
                           raised |-> run /\ ~ok]
    /\ UNCHANGED <<b_ca, b_now, b_events, b_serial, b_rtSeen, b_poisoned,
                   b_cap, b_appended>>

\* The buffers flush_all visits, in the order the loop visits them.
RECURSIVE flush_all_loop(_, _)
flush_all_loop(todo, acc) ==
    IF todo = <<>> \/ acc.raised THEN acc
    ELSE LET u == Head(todo)
             run == Len(b_events[u]) >= min_events_for_cluster
             ok == run_cluster_returns(b_ca)
         IN  flush_all_loop(Tail(todo),
                [acc EXCEPT !.runs = IF run THEN Append(@, Len(b_events[u])) ELSE @,
                            !.flushed = IF run /\ ok THEN @ \cup {u} ELSE @,
                            !.raised = run /\ ~ok])

\* flush_all() (realtime_cluster_engine.py:162-168)
FlushAll ==
    /\ \E order \in {<<"user:alice", "user:bob">>, <<"user:bob", "user:alice">>} :
         LET res == flush_all_loop(order,
                       [op |-> "flush_all", user |-> "all", now |-> b_now,
                        runs |-> <<>>, flushed |-> {}, raised |-> FALSE])
         IN  /\ b_last' = [u \in UserKeys |->
                              IF u \in res.flushed THEN b_now ELSE b_last[u]]
             /\ b_call' = res
    /\ UNCHANGED <<b_ca, b_now, b_events, b_serial, b_rtSeen, b_poisoned,
                   b_cap, b_appended>>

BridgeNext == Tick \/ EngineIngest \/ FlushUser \/ FlushAll

-----------------------------------------------------------------------------
(* ClusterAnalyzer of service/clustering and its four axis analyzers.      *)
(* Axis scores are in thousandths; the risk is in units of 1/100000, the   *)
(* product of a score in thousandths and a weight in hundredths.           *)

\* Largest event set explored.
MaxEvents == 6

\* 1000 * ln(n) for n = 1..16, the values of math.log1p the analyzers need.
Ln1000 == <<0, 693, 1099, 1386, 1609, 1792, 1946, 2079, 2197, 2303,
            2398, 2485, 2565, 2639, 2708, 2773>>

\* AnalysisConfig() (config.py:6-64).  sensitive_files maps each path of the
\* events explored that contains a pattern of the table to the sensitivity of
\* the first such pattern.  extras holds the attributes that the analyzers
\* read and the dataclass does not declare.
DEFAULT_CONFIG ==
    [time_window_threshold |-> 300,
     business_hours |-> <<9, 19>>,
     maintenance_windows |-> {<<1, 3>>},
     internal_ips |-> {"10.0.0.5", "10.0.0.6", "10.0.0.7"},
     admin_users |-> {"admin", "root", "administrator"},
     service_accounts |-> {"backup", "batch", "svc_backup", "svc_batch"},
     sensitive_files |-> [p \in {"/etc/passwd"} |-> 900],
     metric_weights |-> [time |-> 25, ip |-> 20, user |-> 30, file |-> 25],
     min_axes_for_alert |-> 2,
     single_signal_penalty |-> 20000,
     orthogonality_bonus |-> 10000,
     parsing_confidence_floor |-> 600,
     extras |-> [n \in {} |-> 0]]

\* A configuration object that also carries the attributes AnalysisConfig
\* lacks; db_sensitive_names is given as the set of the object names explored
\* that contain one of its tags, exfil_bytes_threshold in MiB.
ExtraAttributes ==
    [db_row_threshold |-> 1000,
     db_sensitive_names |-> {"credentials"},
     exfil_bytes_threshold |-> 50,
     auth_burst_window_sec |-> 300,
     auth_fail_burst_threshold |-> 3,
     auth_spray_user_threshold |-> 3]

ExtendedConfig == [DEFAULT_CONFIG EXCEPT !.extras = ExtraAttributes]

\* The extended configuration with a sensitive-file table of its own, whose
\* one pattern has sensitivity 0.
CustomConfig ==
    [ExtendedConfig EXCEPT !.sensitive_files = [p \in {"report.xlsx"} |-> 0]]

Configs == {DEFAULT_CONFIG, ExtendedConfig, CustomConfig}

\* getattr(config, name) succeeds
has(cfg, name) == name \in DOMAIN cfg.extras

\* The events explored, all on one day, ts in seconds since 00:00 UTC, bytes_out
\* in MiB, parsing_confidence in thousandths.
Ev(id, ts, type, user) ==
    [id |-> id, ts |-> ts, type |-> type, users |-> <<user>>,
     src |-> "10.0.0.5", dst |-> "10.0.0.5", files |-> <<>>, status |-> "",
     asn |-> "", obj_name |-> "", row_count |-> 0, bytes_out |-> 0,
     blocked |-> FALSE, conf |-> 950]

Fixtures ==
    {[Ev(1, 79200, "file_access", "admin") EXCEPT !.files = <<"report.xlsx">>],
     [Ev(2, 79320, "file_access", "admin") EXCEPT !.files = <<"report.xlsx">>],
     [Ev(3, 80100, "authentication", "admin") EXCEPT !.status = "success",
                                                      !.asn = "first_seen"],
     [Ev(4, 81000, "authentication", "admin") EXCEPT !.status = "success"],
     [Ev(5, 81900, "db_access", "admin") EXCEPT !.obj_name = "credentials",
                                                 !.row_count = 15000],
     [Ev(6, 82800, "data_transfer", "admin") EXCEPT !.dst = "203.0.113.9",
                                                     !.bytes_out = 1,
                                                     !.blocked = TRUE],
     [Ev(7, 82860, "data_transfer", "admin") EXCEPT !.dst = "203.0.113.9",
                                                     !.bytes_out = 60],
     [Ev(8, 82870, "file_access", "alice") EXCEPT !.files = <<"/etc/passwd">>,
                                                   !.conf = 200],
     [Ev(9, 81001, "file_access", "admin") EXCEPT !.files = <<"/etc/passwd">>],
     [Ev(10, 81002, "file_access", "admin") EXCEPT !.files = <<"/etc/passwd">>],
     [Ev(11, 80999, "authentication", "admin") EXCEPT !.status = "success",
                                                       !.asn = "first_seen"]}

\* sorted(events, key=lambda x: x.timestamp); the events explored have
\* pairwise different timestamps.
RECURSIVE SortByTs(_)
SortByTs(S) ==
    IF S = {} THEN <<>>
    ELSE LET first == CHOOSE e \in S : \A f \in S : e.ts <= f.ts
         IN  <<first>> \o SortByTs(S \ {first})

\* sum(f[x] for x in DOMAIN f)
RECURSIVE Sum(_)
Sum(f) ==
    IF DOMAIN f = {} THEN 0
    ELSE LET x == CHOOSE y \in DOMAIN f : TRUE
         IN  f[x] + Sum([y \in DOMAIN f \ {x} |-> f[y]])

Clip(x, lo, hi) == IF x < lo THEN lo ELSE IF x > hi THEN hi ELSE x

OfType(evs, type) == {e \in evs : e.type = type}

\* e.timestamp.hour
hour(e) == (e.ts \div 3600) % 24

\* (e.entities.get("users") or [dflt])[0]
first_user(e, dflt) == IF e.users = <<>> THEN dflt ELSE e.users[1]

\* TimeAnalyzer.calculate_time_concentration (time_analyzer.py:25-46)
calculate_time_concentration(cfg, evs) ==
    IF Cardinality(evs) < 2 THEN 0
    ELSE LET sorted == SortByTs(evs)
             gaps == [i \in 1..(Len(sorted) - 1) |-> sorted[i + 1].ts - sorted[i].ts]
             total == Sum(gaps)
             thr == cfg.time_window_threshold
         IN  \* (thr - mean(gaps)) / thr
             Clip(((thr * Len(gaps) - total) * 1000) \div (thr * Len(gaps)), 0, 1000)

\* IPAnalyzer._is_internal (ip_analyzer.py:128-133)
is_internal(cfg, ip) == ip \in cfg.internal_ips

\* The element at index int(0.75 * (len - 1)) of the sorted window scores
\* (ip_analyzer.py:75-79); score maps each bucket to its score.
percentile75(score) ==
    LET B == DOMAIN score
        idx == (3 * (Cardinality(B) - 1)) \div 4
    IN  CHOOSE v \in {score[b] : b \in B} :
            /\ Cardinality({b \in B : score[b] < v}) <= idx
            /\ idx < Cardinality({b \in B : score[b] <= v})

\* IPAnalyzer.calculate_ip_diversification (ip_analyzer.py:17-88)
calculate_ip_diversification(cfg, evs) ==
    IF evs = {} THEN 0
    ELSE LET all_ips == {e.src : e \in evs} \cup {e.dst : e \in evs}
             ext_ips == {ip \in all_ips : ~is_internal(cfg, ip)}
             global_score ==
                 (Ln1000[Cardinality(all_ips) + 1] * 1000) \div Ln1000[Cardinality(evs) + 2]
             buckets == {e.ts \div (15 * 60) : e \in evs}
             in_bucket(b) == {e \in evs : e.ts \div (15 * 60) = b}
             ext_set(b) == {ip \in {e.src : e \in in_bucket(b)} \cup {e.dst : e \in in_bucket(b)} :
                              ~is_internal(cfg, ip)}
             score == [b \in buckets |->
                          (Ln1000[Cardinality(ext_set(b)) + 1] * 1000)
                              \div Ln1000[Cardinality(in_bucket(b)) + 2]]
             window_score == percentile75(score)
             external_ratio == (Cardinality(ext_ips) * 1000) \div Cardinality(all_ips)
         IN  Clip((500 * global_score + 400 * window_score + 100 * external_ratio) \div 1000,
                  0, 1000)

\* _event_has_sensitive (file_analyzer.py:109-113, user_analyzer.py:122-127)
event_has_sensitive(cfg, e) ==
    \E i \in 1..Len(e.files) : e.files[i] \in DOMAIN cfg.sensitive_files

\* The loop of _has_sensitive_sequence over the sorted events from index i on,
\* seq and last_ts as the loop holds them (last_ts = -1 for None).
RECURSIVE sensitive_sequence_loop(_, _, _, _, _)
sensitive_sequence_loop(cfg, sorted, i, seq, last_ts) ==
    IF i > Len(sorted) THEN FALSE
    ELSE IF event_has_sensitive(cfg, sorted[i])
         THEN LET seq2 == IF last_ts # -1 /\ sorted[i].ts - last_ts <= 180
                             THEN seq + 1 ELSE 1
              IN  IF seq2 >= 2 THEN TRUE
                  ELSE sensitive_sequence_loop(cfg, sorted, i + 1, seq2, sorted[i].ts)
         ELSE sensitive_sequence_loop(cfg, sorted, i + 1, 0, -1)

\* _has_sensitive_sequence with k = 2, window_sec = 180
\* (file_analyzer.py:94-107, user_analyzer.py:107-120)
has_sensitive_sequence(cfg, file_events) ==
    IF Cardinality(file_events) < 2 THEN FALSE
    ELSE sensitive_sequence_loop(cfg, SortByTs(file_events), 1, 0, -1)

\* FileAnalyzer._get_file_sensitivity (file_analyzer.py:87-92)
get_file_sensitivity(cfg, fp) ==
    IF fp \in DOMAIN cfg.sensitive_files THEN cfg.sensitive_files[fp] ELSE 300

\* FileAnalyzer.calculate_file_sensitivity (file_analyzer.py:14-27)
calculate_file_sensitivity(cfg, evs) ==
    LET file_events == OfType(evs, "file_access")
        cnt == Sum([e \in file_events |-> Len(e.files)])
        tot == Sum([e \in file_events |->
                      Sum([i \in DOMAIN e.files |-> get_file_sensitivity(cfg, e.files[i])])])
        base == IF cnt = 0 THEN 0 ELSE tot \div cnt
    IN  IF file_events = {} THEN 0
        ELSE IF has_sensitive_sequence(cfg, file_events)
                THEN IF base + 150 > 1000 THEN 1000 ELSE base + 150
                ELSE base

\* The authentication events of the same (src_ip, user) key that failed
\* before e, within the burst window.
recent_fails(cfg, auth, e) ==
    {x \in auth : /\ x.status = "fail"
                  /\ x.src = e.src
                  /\ first_user(x, "unknown") = first_user(e, "unknown")
                  /\ x.ts < e.ts
                  /\ e.ts - x.ts <= cfg.extras.auth_burst_window_sec}

\* UserAnalyzer._auth_abuse_signals raises AttributeError
\* (user_analyzer.py:81, 86, 87, 92)
auth_abuse_signals_raises(cfg, evs) ==
    LET auth == OfType(evs, "authentication")
        prior(e) == {x \in auth : x.status = "fail" /\ x.src = e.src /\ x.ts < e.ts
                                  /\ first_user(x, "unknown") = first_user(e, "unknown")}
    IN  /\ auth # {}
        /\ \/ \E e \in auth : e.status = "fail" /\ ~has(cfg, "auth_burst_window_sec")
           \/ \E e \in auth : e.status = "success" /\ prior(e) # {}
                                 /\ ~has(cfg, "auth_burst_window_sec")
           \/ \E e \in auth : e.status = "success" /\ ~has(cfg, "auth_fail_burst_threshold")
           \/ ~has(cfg, "auth_spray_user_threshold")

\* UserAnalyzer._auth_abuse_signals (user_analyzer.py:63-105), when it returns
auth_abuse_signals(cfg, evs) ==
    LET auth == OfType(evs, "authentication")
        success_after_burst ==
            \E e \in auth :
                /\ e.status = "success"
                /\ Cardinality(recent_fails(cfg, auth, e)) >= cfg.extras.auth_fail_burst_threshold
        spray_users == {first_user(e, "unknown") : e \in {x \in auth : x.status = "fail"}}
        admin_success == {e \in auth : /\ first_user(e, "unknown") \in cfg.admin_users
                                        /\ e.status = "success"}
        bonus ==
              (IF success_after_burst THEN 350 ELSE 0)
            + (IF Cardinality(spray_users) >= cfg.extras.auth_spray_user_threshold
                  THEN 250 ELSE 0)
            + Sum([e \in admin_success |->
                     (IF ~(cfg.business_hours[1] <= hour(e) /\ hour(e) < cfg.business_hours[2])
                         THEN 200 ELSE 0)
                   + (IF e.asn = "first_seen" THEN 200 ELSE 0)])
    IN  IF auth = {} THEN 0 ELSE IF bonus > 600 THEN 600 ELSE bonus

\* UserAnalyzer.calculate_user_anomaly (user_analyzer.py:17-44), when it returns
calculate_user_anomaly(cfg, evs) ==
    LET users == UNION {{e.users[i] : i \in DOMAIN e.users} : e \in evs}
        of_user(u) == {e \in evs : \E i \in DOMAIN e.users : e.users[i] = u}
        score(u) ==
              (IF u \in cfg.service_accounts THEN -100 ELSE 0)
            + (IF /\ u \in cfg.admin_users
                  /\ has_sensitive_sequence(cfg, OfType(of_user(u), "file_access"))
                  THEN 150 ELSE 0)
        total == Sum([u \in users |-> IF score(u) < 0 THEN 0 ELSE score(u)])
        n == IF users = {} THEN 1 ELSE Cardinality(users)
        base == IF total \div n > 1000 THEN 1000 ELSE total \div n
        both == base + auth_abuse_signals(cfg, evs)
    IN  IF evs = {} THEN 0 ELSE IF both > 1000 THEN 1000 ELSE both

\* UserAnalyzer.detect_privilege_escalation (user_analyzer.py:46-59):
\* escalation_detected
escalation_detected(cfg, evs) ==
    \/ /\ \E e \in evs : \E i \in DOMAIN e.users : e.users[i] \in cfg.admin_users
       /\ has_sensitive_sequence(cfg, OfType(evs, "file_access"))
    \/ auth_abuse_signals(cfg, evs) >= 350

\* FileAnalyzer.analyze_data_exfiltration_risk raises AttributeError
\* (file_analyzer.py:41, 48)
exfiltration_risk_raises(cfg, evs) ==
    \/ \E e \in OfType(evs, "db_access") :
          \/ ~has(cfg, "db_row_threshold")
          \/ e.row_count >= cfg.extras.db_row_threshold /\ ~has(cfg, "db_sensitive_names")
    \/ ~has(cfg, "exfil_bytes_threshold")

\* FileAnalyzer.analyze_data_exfiltration_risk (file_analyzer.py:29-82), when
\* it returns
analyze_data_exfiltration_risk(cfg, evs) ==
    LET heavy_db == {e \in OfType(evs, "db_access") :
                        /\ e.row_count >= cfg.extras.db_row_threshold
                        /\ e.obj_name \in cfg.extras.db_sensitive_names}
        total_bytes_out == Sum([e \in OfType(evs, "data_transfer") |-> e.bytes_out])
        r1 == IF heavy_db # {} THEN 400 ELSE 0
        r2 == IF total_bytes_out >= cfg.extras.exfil_bytes_threshold THEN r1 + 350 ELSE r1
        r3 == IF has_sensitive_sequence(cfg, OfType(evs, "file_access")) THEN r2 + 150 ELSE r2
        r4 == IF \E e \in evs : \E w \in cfg.maintenance_windows :
                                    w[1] <= hour(e) /\ hour(e) < w[2]
                 THEN (IF r3 - 150 < 0 THEN 0 ELSE r3 - 150) ELSE r3
        r5 == IF \E e \in evs : first_user(e, "") \in cfg.service_accounts
                 THEN (IF r4 - 100 < 0 THEN 0 ELSE r4 - 100) ELSE r4
    IN  [exfiltration_risk_score |-> IF r5 > 1000 THEN 1000 ELSE r5,
         db_heavy_objects |-> heavy_db # {},
         total_bytes_out |-> total_bytes_out]

\* The loop of analyze_network_movement over the sorted events from index i
\* on; st holds ext_to_int, int_to_int, chain, last_dst and
\* ext_int_then_chain.
RECURSIVE network_movement_loop(_, _, _, _)
network_movement_loop(cfg, sorted, i, st) ==
    IF i > Len(sorted) THEN st
    ELSE LET e == sorted[i]
             src_int == is_internal(cfg, e.src)
             dst_int == is_internal(cfg, e.dst)
         IN  IF ~src_int /\ dst_int
                THEN network_movement_loop(cfg, sorted, i + 1,
                        [st EXCEPT !.ext_to_int = @ + 1, !.chain = 0, !.last_dst = e.dst])
             ELSE IF src_int /\ dst_int
                THEN LET chain == IF st.last_dst # "" /\ e.src = st.last_dst
                                     THEN st.chain + 1 ELSE 1
                     IN  network_movement_loop(cfg, sorted, i + 1,
                            [st EXCEPT !.int_to_int = @ + 1,
                                       !.chain = chain, !.last_dst = e.dst,
                                       !.flag = @ \/ (chain >= 2 /\ st.ext_to_int > 0)])
             ELSE network_movement_loop(cfg, sorted, i + 1, st)

\* IPAnalyzer.analyze_network_movement (ip_analyzer.py:90-126)
analyze_network_movement(cfg, evs) ==
    LET st == network_movement_loop(cfg, SortByTs(evs), 1,
                 [ext_to_int |-> 0, int_to_int |-> 0, chain |-> 0,
                  last_dst |-> "", flag |-> FALSE])
    IN  IF evs = {}
           THEN [external_to_internal |-> 0, internal_to_internal |-> 0,
                 lateral_movement_detected |-> FALSE, network_penetration_depth |-> 0]
           ELSE [external_to_internal |-> st.ext_to_int,
                 internal_to_internal |-> st.int_to_int,
                 lateral_movement_detected |-> (st.chain >= 2 \/ st.flag),
                 network_penetration_depth |-> st.ext_to_int + st.int_to_int]

\* sequence_window_min, 30 when the configuration has none
\* (facade/clustering/ip_analyzer.py:64)
sequence_window_min == 30

\* The loop of the analyze_network_movement of facade/clustering over the
\* sorted events from index i on; st holds seen_extint, seen_intint, chain,
\* last_dst and ext_int_seen_before_chain.  Every address explored is a valid
\* IPv4 literal.
RECURSIVE facade_network_movement_loop(_, _, _, _)
facade_network_movement_loop(cfg, by_time, i, st) ==
    IF i > Len(by_time) THEN st
    ELSE LET e == by_time[i]
             bucket == e.ts \div (sequence_window_min * 60)
             key == <<bucket, e.src, e.dst>>
             src_int == is_internal(cfg, e.src)
             dst_int == is_internal(cfg, e.dst)
         IN  IF e.src = "0.0.0.0" \/ e.dst = "0.0.0.0"
                THEN facade_network_movement_loop(cfg, by_time, i + 1, st)
             ELSE IF ~src_int /\ dst_int
                THEN facade_network_movement_loop(cfg, by_time, i + 1,
                        [st EXCEPT !.seen_extint = @ \cup {key}, !.chain = 0,
                                   !.last_dst = e.dst])
             ELSE IF src_int /\ dst_int
                THEN LET chain == IF st.last_dst # "" /\ e.src = st.last_dst
                                     THEN st.chain + 1 ELSE 1
                     IN  facade_network_movement_loop(cfg, by_time, i + 1,
                            [st EXCEPT !.seen_intint = @ \cup {key},
                                       !.chain = chain, !.last_dst = e.dst,
                                       !.flag = @ \/ (chain >= 2 /\ st.seen_extint # {})])
             ELSE facade_network_movement_loop(cfg, by_time, i + 1, st)

\* IPAnalyzer.analyze_network_movement of facade/clustering
\* (facade/clustering/ip_analyzer.py:59-111)
facade_analyze_network_movement(cfg, evs) ==
    LET st == facade_network_movement_loop(cfg, SortByTs(evs), 1,
                 [seen_extint |-> {}, seen_intint |-> {}, chain |-> 0,
                  last_dst |-> "", flag |-> FALSE])
    IN  IF evs = {}
           THEN [external_to_internal |-> 0, internal_to_internal |-> 0,
                 lateral_movement_detected |-> FALSE, network_penetration_depth |-> 0]
           ELSE [external_to_internal |-> Cardinality(st.seen_extint),
                 internal_to_internal |-> Cardinality(st.seen_intint),
                 lateral_movement_detected |-> (st.chain >= 2 \/ st.flag),
                 network_penetration_depth |->
                     Cardinality(st.seen_extint) + Cardinality(st.seen_intint)]

\* lateral_movement_detected of analyze_network_movement, as analyze_cluster
\* reads it (cluster_analyzer.py:73)
lateral_movement_detected(cfg, evs) ==
    analyze_network_movement(cfg, evs).lateral_movement_detected

\* TimeAnalyzer.detect_burst_pattern (time_analyzer.py:48-72), with
\* burst_threshold = 2/60 events per second (config.py:10); the intensity in
\* thousandths.
detect_burst_pattern(cfg, evs) ==
    IF Cardinality(evs) < 2
       THEN [burst_detected |-> FALSE, burst_intensity |-> 0]
       ELSE LET sorted == SortByTs(evs)
                total_duration == sorted[Len(sorted)].ts - sorted[1].ts
                n == Cardinality(evs)
            IN  IF total_duration = 0
                   THEN [burst_detected |-> TRUE, burst_intensity |-> 1000]
                   ELSE [burst_detected |-> n * 60 > 2 * total_duration,
                         burst_intensity |-> Min(1000, (n * 60 * 1000) \div (2 * total_duration))]

\* A level taken from the table low 0.4, medium 0.6, high 0.8, critical 0.9.
determine_priority_level_config_table(risk) ==
    IF risk >= 90000 THEN "CRITICAL"
    ELSE IF risk >= 80000 THEN "HIGH"
    ELSE IF risk >= 60000 THEN "MEDIUM"
    ELSE "LOW"

\* ClusterAnalyzer._determine_priority_level (cluster_analyzer.py:182-186)
determine_priority_level(risk) ==
    IF risk >= 80000 THEN "CRITICAL"
    ELSE IF risk >= 60000 THEN "HIGH"
    ELSE IF risk >= 40000 THEN "MEDIUM"
    ELSE "LOW"

\* A gate that leaves a single-axis risk as it is.
gate_without_penalty(cfg, risk, axes) ==
    IF axes >= 3
       THEN Min(100000, risk + cfg.orthogonality_bonus)
       ELSE risk

\* The multi-axis gate of analyze_cluster (cluster_analyzer.py:56-59)
gate(cfg, risk, axes) ==
    LET penalised == IF axes < cfg.min_axes_for_alert
                        THEN Max(0, risk - cfg.single_signal_penalty)
                        ELSE risk
    IN  IF axes >= 3
           THEN Min(100000, penalised + cfg.orthogonality_bonus)
           ELSE penalised

\* ClusterAnalyzer._empty_metrics (cluster_analyzer.py:188-192)
empty_metrics ==
    [status |-> "ok", time_concentration |-> 0, ip_diversification |-> 0,
     user_anomaly |-> 0, file_sensitivity |-> 0, network_threat |-> 0,
     weighted_sum |-> 0, axes |-> 0, uplift |-> {},
     overall_risk_score |-> 0, priority_level |-> "LOW"]

Raised == [status |-> "raise"]

\* ClusterAnalyzer.analyze_cluster (cluster_analyzer.py:22-148).  The IP
\* Analyzer of service/clustering has no calculate_network_threat, so the call
\* at line 36 raises, net_threat stays None and net_details stays empty.
analyze_cluster(cfg, evs) ==
    IF evs = {} THEN empty_metrics
    ELSE IF auth_abuse_signals_raises(cfg, evs) \/ exfiltration_risk_raises(cfg, evs)
    THEN Raised
    ELSE
    LET time_conc == calculate_time_concentration(cfg, evs)
        ip_div == calculate_ip_diversification(cfg, evs)
        user_anom == calculate_user_anomaly(cfg, evs)
        file_sens == calculate_file_sensitivity(cfg, evs)
        weighted == time_conc * cfg.metric_weights.time + ip_div * cfg.metric_weights.ip
                    + user_anom * cfg.metric_weights.user + file_sens * cfg.metric_weights.file
        axes == Cardinality({k \in {"time", "ip", "user", "file"} :
                    (CASE k = "time" -> time_conc [] k = "ip" -> ip_div
                       [] k = "user" -> user_anom [] OTHER -> file_sens) > 600})
        gated == gate(cfg, weighted, axes)
        avg_conf == Sum([e \in evs |-> e.conf]) \div Cardinality(evs)
        discounted == IF avg_conf < cfg.parsing_confidence_floor
                         THEN (gated * 85) \div 100 ELSE gated
        file_analysis == analyze_data_exfiltration_risk(cfg, evs)
        db_heavy == file_analysis.db_heavy_objects
        bytes_out == file_analysis.total_bytes_out
        exfil_thr == cfg.extras.exfil_bytes_threshold
        blocked_egress == 0
        uplift ==
            {r \in {"db_exfil", "lateral_exfil", "escalation_db"} :
                CASE r = "db_exfil" ->
                        \/ db_heavy /\ (bytes_out >= exfil_thr \/ blocked_egress >= 1)
                        \/ file_analysis.exfiltration_risk_score >= 700
                  [] r = "lateral_exfil" ->
                        /\ lateral_movement_detected(cfg, evs)
                        /\ (bytes_out >= exfil_thr \/ blocked_egress >= 1)
                  [] OTHER -> escalation_detected(cfg, evs) /\ db_heavy}
        risk == IF uplift # {} THEN Max(discounted, 60000) ELSE discounted
    IN  [status |-> "ok", time_concentration |-> time_conc, ip_diversification |-> ip_div,
         user_anomaly |-> user_anom, file_sensitivity |-> file_sens, network_threat |-> 0,
         weighted_sum |-> weighted, axes |-> axes, uplift |-> uplift,
         overall_risk_score |-> risk, priority_level |-> determine_priority_level(risk)]

\* ClusterAnalyzer.analyze_cluster of facade/clustering
\* (facade/clustering/cluster_analyzer.py:19-61).  Its return statement builds
\* ClusterMetrics with the keyword network_threat, which the dataclass of
\* facade/clustering/models.py:49-58 does not declare: the constructor raises
\* TypeError for every event list, after the level of lines 45-50 was
\* computed.
facade_analyze_cluster(cfg, evs) == [status |-> "raise", variant |-> "facade"]

\* ClusterAnalyzer.get_detailed_analysis (cluster_analyzer.py:149-169).
\* detect_privilege_escalation calls _auth_abuse_signals and
\* analyze_data_exfiltration_risk reads config.exfil_bytes_threshold whatever
\* the events are.
get_detailed_analysis(cfg, evs) ==
    IF auth_abuse_signals_raises(cfg, evs) \/ exfiltration_risk_raises(cfg, evs)
    THEN [status |-> "raise", call |-> "get_detailed_analysis"]
    ELSE [status |-> "ok", call |-> "get_detailed_analysis",
          time_analysis |-> detect_burst_pattern(cfg, evs),
          ip_analysis |-> analyze_network_movement(cfg, evs),
          escalation_detected |-> escalation_detected(cfg, evs),
          file_analysis |-> analyze_data_exfiltration_risk(cfg, evs),
          event_count |-> Cardinality(evs),
          unique_users |-> Cardinality(UNION {{e.users[i] : i \in DOMAIN e.users} : e \in evs}),
          unique_ips |-> Cardinality({e.src : e \in evs} \cup {e.dst : e \in evs})]

NoOut == [status |-> "none"]

ClusterInit ==
    /\ c_config \in Configs
    /\ c_events = {}
    /\ c_out = NoOut
    /\ c_detail = NoOut

\* The caller collects one more event for the analyzer.
AddEvent ==
    /\ Cardinality(c_events) < MaxEvents
    /\ \E e \in Fixtures \ c_events : c_events' = c_events \cup {e}
    /\ c_out' = NoOut
    /\ c_detail' = NoOut
    /\ UNCHANGED c_config

\* The caller runs analyze_cluster over the events collected.
AnalyzeCluster ==
    /\ c_out = NoOut
    /\ c_out' = analyze_cluster(c_config, c_events)
    /\ UNCHANGED <<c_config, c_events, c_detail>>

\* The caller runs the analyze_cluster of facade/clustering over the events
\* collected.
FacadeAnalyzeCluster ==
    /\ c_out = NoOut
    /\ c_out' = facade_analyze_cluster(c_config, c_events)
    /\ UNCHANGED <<c_config, c_events, c_detail>>

\* The caller runs get_detailed_analysis over the events collected.
GetDetailedAnalysis ==
    /\ c_detail = NoOut
    /\ c_detail' = get_detailed_analysis(c_config, c_events)
    /\ UNCHANGED <<c_config, c_events, c_out>>

\* The caller runs the analyze_network_movement of service/clustering or of
\* facade/clustering over the events collected.
AnalyzeNetworkMovement ==
    /\ c_detail = NoOut
    /\ \/ c_detail' = [status |-> "ok", call |-> "analyze_network_movement",
                       ip_analysis |-> analyze_network_movement(c_config, c_events)]
       \/ c_detail' = [status |-> "ok", call |-> "facade_analyze_network_movement",
                       ip_analysis |-> facade_analyze_network_movement(c_config, c_events)]
    /\ UNCHANGED <<c_config, c_events, c_out>>

ClusterNext ==
    \/ AddEvent
    \/ AnalyzeCluster
    \/ FacadeAnalyzeCluster
    \/ GetDetailedAnalysis
    \/ AnalyzeNetworkMovement

-----------------------------------------------------------------------------
(* score_groups of risk_scorer2.py, policy v0.3.  Scores are integers in  *)
(* units of 1/100000; the returned risk_score is in hundredths.            *)

\* Longest event list handed to score_groups.
MaxRiskEvents == 4

\* BASE_TYPE.get(hint, BASE_TYPE[None]) (risk_scorer2.py:9-26, 104)
BASE_TYPE(hint) ==
    CASE hint = "authentication" -> 5
      [] hint \in {"auth_failure", "file_accessed", "network_connection", "xss"} -> 6
      [] hint \in {"process_start", "bruteforce", "config_change"} -> 7
      [] hint \in {"privilege_escalation", "malware_detected", "rce"} -> 10
      [] hint = "data_exfil" -> 9
      [] hint = "scan" -> 4
      [] hint = "sqli" -> 8
      [] OTHER -> 3

\* SEVERITY_HINT.get(hint, SEVERITY_HINT[None]) (risk_scorer2.py:28-35, 105)
SEVERITY_HINT(hint) ==
    CASE hint = "info" -> 2
      [] hint = "low" -> 4
      [] hint = "medium" -> 6
      [] hint = "high" -> 8
      [] hint = "critical" -> 10
      [] OTHER -> 3

\* The paths explored that contain one of "/etc/", "/var/www/", "/etc/shadow",
\* "/var/lib/", "/home/", and those that contain one of "/var/log/",
\* "/opt/app/", "/srv/" (risk_scorer2.py:40, 42).
CriticalPaths == {"/etc/shadow"}
LogPaths == {"/var/log/auth.log"}

\* dst_ip.startswith(("10.", "172.16.", "172.31.", "192.168.")), over the
\* addresses explored (risk_scorer2.py:46)
PrivateDst == {"10.0.0.5", "192.168.1.20"}

\* The loop of _asset_crit over the files from index i on; 0 when no file
\* decided.
RECURSIVE asset_crit_files(_, _)
asset_crit_files(files, i) ==
    IF i > Len(files) THEN 0
    ELSE IF files[i] \in CriticalPaths THEN 8
    ELSE IF files[i] \in LogPaths THEN 6
    ELSE asset_crit_files(files, i + 1)

\* _asset_crit (risk_scorer2.py:37-51)
asset_crit(dst_ip, files, source_type) ==
    IF asset_crit_files(files, 1) # 0 THEN asset_crit_files(files, 1)
    ELSE IF dst_ip \in PrivateDst THEN 6
    ELSE IF source_type \in {"auth", "ids", "edr", "db", "firewall"} THEN 7
    ELSE 5

\* _risk_level (risk_scorer2.py:53-58)
risk_level(score) ==
    IF score >= 850000 THEN "Critical"
    ELSE IF score >= 700000 THEN "High"
    ELSE IF score >= 450000 THEN "Medium"
    ELSE IF score >= 250000 THEN "Low"
    ELSE "Info"

\* 100000 * math.log2(n) for n = 1..8 (risk_scorer2.py:108)
Log2_100000 == <<0, 100000, 158496, 200000, 232193, 258496, 280735, 300000>>

\* round(x, 2): x in units of 1/100000, the result in hundredths; a tie goes to
\* the even neighbour.
round2(x) ==
    LET q == x \div 1000
        r == x % 1000
    IN  IF r > 500 \/ (r = 500 /\ q % 2 = 1) THEN q + 1 ELSE q

\* An event as adapter2.load_preprocessed_events hands it over: ts in seconds,
\* parsing_confidence in thousandths.
REv(id, user, hint, sev, ts, conf) ==
    [id |-> id, users |-> <<user>>, src_ip |-> "10.0.0.9", dst_ip |-> "10.0.0.5",
     event_type_hint |-> hint, severity_hint |-> sev, ts |-> ts,
     parsing_confidence |-> conf, files |-> <<>>, source_type |-> "auth"]

RiskFixtures ==
    <<REv(1, "bob", "scan", "info", 0, 950),
      REv(2, "alice", "privilege_escalation", "high", 173, 950),
      REv(3, "alice", "privilege_escalation", "high", 400, 780),
      [REv(4, "carol", "rce", "critical", 600, 950)
          EXCEPT !.files = <<"/etc/shadow">>, !.dst_ip = "203.0.113.9"],
      [REv(5, "dave", "process_start", "info", 0, 780) EXCEPT !.source_type = "web"],
      [REv(6, "erin", "dns_query", "none", 300, 100)
          EXCEPT !.users = <<>>, !.dst_ip = "203.0.113.9", !.source_type = "dns"],
      REv(7, "bob", "scan", "info", 600, 950)>>

\* The keys of `buckets` (risk_scorer2.py:88-93); "None" stands for the user
\* of an event without users.
group_keys(events) ==
    UNION {{<<u, events[i].src_ip, events[i].dst_ip, events[i].event_type_hint>> :
               u \in (IF events[i].users = <<>> THEN {"None"}
                      ELSE {events[i].users[j] : j \in DOMAIN events[i].users})} :
           i \in DOMAIN events}

\* buckets[key], as the indices of its events in list order
bucket(events, key) ==
    {i \in DOMAIN events :
        /\ key[1] \in (IF events[i].users = <<>> THEN {"None"}
                       ELSE {events[i].users[j] : j \in DOMAIN events[i].users})
        /\ key[2] = events[i].src_ip
        /\ key[3] = events[i].dst_ip
        /\ key[4] = events[i].event_type_hint}

SetMax(S) == CHOOSE x \in S : \A y \in S : y <= x
SetMin(S) == CHOOSE x \in S : \A y \in S : x <= y

\* The body of the loop over buckets (risk_scorer2.py:102-174) for one key
score_group(events, key, anomaly) ==
    LET idx == bucket(events, key)
        all_ts == {events[i].ts : i \in DOMAIN events}
        min_ts == SetMin(all_ts)
        span_sec == Max(1, SetMax(all_ts) - min_ts)
        type_score == SetMax({BASE_TYPE(events[i].event_type_hint) : i \in idx})
        severity == SetMax({SEVERITY_HINT(events[i].severity_hint) : i \in idx})
        n == Cardinality(idx)
        volume == Min(1000000, 300000 + Log2_100000[n + 1])
        last_seen == SetMax({events[i].ts : i \in idx})
        recency == 200000 + (800000 * (last_seen - min_ts)) \div span_sec
        sample == events[SetMax(idx)]
        asset == asset_crit(sample.dst_ip, sample.files, sample.source_type)
        avg_conf == (Sum([i \in idx |-> events[i].parsing_confidence]) * 100) \div n
        confidence_adj == (avg_conf - 50000) * 4
        weighted == (30 * type_score * 100000 + 20 * severity * 100000 + 20 * volume
                       + 15 * recency + 15 * asset * 100000) \div 100
        base_score == Clip(weighted + confidence_adj, 0, 1000000)
        anomaly_0_1 == IF anomaly = -1 THEN 0 ELSE Clip(anomaly, 0, 1000)
        blended == (base_score * 800) \div 1000
                   + ((((base_score + 200000) * 200) \div 1000) * anomaly_0_1) \div 1000
        final_score == Clip(blended, 0, 1000000)
    IN  [key |-> key, count |-> n, final_score |-> final_score,
         risk_score |-> round2(final_score), risk_level |-> risk_level(final_score)]

\* score_groups (risk_scorer2.py:75-177); the groups as a set, whatever their
\* order in the list returned.
score_groups(events, anomaly) ==
    IF events = <<>>
       THEN [policy_version |-> "v0.3", groups |-> {}]
       ELSE [policy_version |-> "v0.3",
             groups |-> {score_group(events, k, anomaly) : k \in group_keys(events)}]

RiskInit ==
    /\ r_events = <<>>
    /\ r_anomaly \in {-1, 400, 1000}
    /\ r_out = NoOut

\* The caller appends one more event of the dataset, in file order.
AddRiskEvent ==
    /\ Len(r_events) < MaxRiskEvents
    /\ \E i \in DOMAIN RiskFixtures :
          /\ \A j \in DOMAIN r_events : r_events[j].id < RiskFixtures[i].id
          /\ r_events' = Append(r_events, RiskFixtures[i])
    /\ r_out' = NoOut
    /\ UNCHANGED r_anomaly

\* main_from_events / score_groups over the list collected
ScoreGroups ==
    /\ r_out = NoOut
    /\ r_out' = score_groups(r_events, r_anomaly)
    /\ UNCHANGED <<r_events, r_anomaly>>

RiskNext == AddRiskEvent \/ ScoreGroups

-----------------------------------------------------------------------------
(* compute_score of service/risk/risk_scorer.py, policy v0.2.  Scores are  *)
(* in hundredths.                                                          *)

\* (str(attack_type).strip().lower() or "other").replace(" ", ""), over the
\* spellings explored (risk_scorer.py:67)
normalized_attack_type(raw) ==
    CASE raw \in {"RCE", "rce"} -> "rce"
      [] raw = "Privilege Escalation" -> "privilegeescalation"
      [] raw = "privilege-escalation" -> "privilege-escalation"
      [] raw = "SQLi" -> "sqli"
      [] raw = "scan" -> "scan"
      [] OTHER -> "other"

\* BASE_TYPE.get(atk, BASE_TYPE["other"]) (risk_scorer.py:6-10, 68)
BASE_TYPE_v02(atk) ==
    CASE atk \in {"rce", "privilegeescalation"} -> 10
      [] atk \in {"sqli", "authbypass", "sessionhijack"} -> 8
      [] atk \in {"fileupload", "pathtraversal"} -> 7
      [] atk \in {"xss", "csrf"} -> 6
      [] atk \in {"scan", "bruteforce"} -> 4
      [] OTHER -> 3

\* buck_volume (risk_scorer.py:25-26)
buck_volume(n) == IF n <= 5 THEN 2 ELSE IF n <= 20 THEN 5 ELSE IF n <= 50 THEN 7 ELSE 9

\* recency (risk_scorer.py:28-35), from the minutes between first_seen and
\* last_seen and the minutes between last_seen and now
recency(dur_min, now_gap_min) ==
    IF now_gap_min <= 60 /\ dur_min >= 10 THEN 8
    ELSE IF now_gap_min <= 24 * 60 THEN 5
    ELSE 3

\* asset_score (risk_scorer.py:37-44), over the asset names explored
asset_score(asset) ==
    CASE asset \in {"admin", "admin console"} -> 9
      [] asset \in {"auth", "login"} -> 9
      [] asset = "payment" -> 9
      [] asset = "internal_api" -> 7
      [] asset = "db" -> 7
      [] OTHER -> 3

\* defense_score (risk_scorer.py:46-49)
defense_score(waf_blocks, http_5xx) ==
    IF http_5xx > 0 THEN 8 ELSE IF waf_blocks > 0 THEN 3 ELSE 1

\* conf_adj (risk_scorer.py:51-54), c in thousandths
conf_adj(c) == IF c < 600 THEN -3 ELSE IF c > 800 THEN 2 ELSE 0

\* risk_level (risk_scorer.py:56-59)
risk_level_v02(score) ==
    IF score >= 750 THEN "High" ELSE IF score >= 500 THEN "Medium" ELSE "Low"

\* cluster.get("mean_confidence", dflt), -1 standing for a missing key
mean_confidence_or(cluster, dflt) ==
    IF cluster.mean_confidence = -1 THEN dflt ELSE cluster.mean_confidence

\* compute_score (risk_scorer.py:61-95)
compute_score(cluster) ==
    IF ~cluster.complete THEN [status |-> "raise"]
    ELSE
    LET atk == normalized_attack_type(cluster.attack_type)
        t == BASE_TYPE_v02(atk)
        vol == buck_volume(cluster.events)
        rec == recency(cluster.dur_min, cluster.now_gap_min)
        ast == asset_score(cluster.target_asset)
        dfs == defense_score(cluster.waf_blocks, cluster.http_5xx)
        cad == conf_adj(mean_confidence_or(cluster, 500))
        score == 35 * t + 20 * vol + 15 * rec + 15 * ast + 10 * dfs + 5 * cad
        floored == IF atk \in {"rce", "privilegeescalation"} /\ ast >= 7
                      THEN Max(score, 510) ELSE score
        capped == IF /\ mean_confidence_or(cluster, 0) < 500
                     /\ cluster.events < 3
                     /\ cluster.waf_blocks = 0
                     THEN Min(floored, 490) ELSE floored
    IN  [status |-> "ok", atk |-> atk, asset |-> ast,
         risk_score |-> capped, risk_level |-> risk_level_v02(capped)]

\* The cluster dicts explored; complete is FALSE when one of the six required
\* keys is missing.
Clusters ==
    [complete : BOOLEAN,
     attack_type : {"RCE", "Privilege Escalation", "privilege-escalation", "SQLi", "scan", ""},
     events : {1, 3, 25},
     dur_min : {0, 15},
     now_gap_min : {30, 2880},
     target_asset : {"admin console", "db", "public_static"},
     mean_confidence : {-1, 400, 700, 900},
     waf_blocks : {0, 2},
     http_5xx : {0, 1}]

NoCluster == [complete |-> FALSE, attack_type |-> "", events |-> 0, dur_min |-> 0,
              now_gap_min |-> 0, target_asset |-> "", mean_confidence |-> -1,
              waf_blocks |-> 0, http_5xx |-> 0]

ScoreInit ==
    /\ s_cluster = NoCluster
    /\ s_out = NoOut

\* _build_clusters or another caller makes a cluster dict.
BuildCluster ==
    /\ s_cluster = NoCluster
    /\ s_cluster' \in Clusters
    /\ UNCHANGED s_out

\* compute_score(cluster)
ComputeScore ==
    /\ s_cluster # NoCluster
    /\ s_out = NoOut
    /\ s_out' = compute_score(s_cluster)
    /\ UNCHANGED s_cluster

ScoreNext == BuildCluster \/ ComputeScore

-----------------------------------------------------------------------------
(* EventClusterer of service/categorizer/event_clustering.py               *)

\* Calls of cluster_events explored on one instance.
MaxPasses == 2

\* time_window_seconds = 60 (event_clustering.py:11)
time_window_seconds == 60

\* A log with its classification: the first IP and the first user ("" when the
\* list is empty), the primary_category of its classification ("" when it has
\* none) and its event_type_hint; ts in seconds.
Log(id, ts, ip, user, category, hint) ==
    [id |-> id, ts |-> ts, ip |-> ip, user |-> user, category |-> category,
     event_type_hint |-> hint]

LogFixtures ==
    {Log(1, 0, "10.0.0.9", "root", "authentication_attack", "authentication"),
     Log(2, 30, "10.0.0.9", "root", "authentication_attack", "authentication"),
     Log(3, 50, "10.0.0.7", "root", "authentication_attack", "authentication"),
     Log(4, 100, "10.0.0.9", "root", "authentication_attack", "file_access"),
     Log(5, 200, "10.0.0.9", "root", "authentication_attack", "authentication"),
     Log(6, 230, "", "", "", ""),
     Log(7, 250, "", "", "", ""),
     Log(8, 255, "", "root", "", "process_start")}

\* The loop of _cluster_by_time (event_clustering.py:49-61) over the sorted
\* logs from index i on
RECURSIVE cluster_by_time_loop(_, _, _, _)
cluster_by_time_loop(sorted_logs, i, clusters, current_cluster) ==
    IF i > Len(sorted_logs)
       THEN IF current_cluster # <<>> THEN Append(clusters, current_cluster) ELSE clusters
    ELSE LET log == sorted_logs[i]
         IN  IF current_cluster = <<>>
                THEN cluster_by_time_loop(sorted_logs, i + 1, clusters, <<log>>)
             ELSE IF log.ts - current_cluster[Len(current_cluster)].ts <= time_window_seconds
                THEN cluster_by_time_loop(sorted_logs, i + 1, clusters,
                                          Append(current_cluster, log))
             ELSE cluster_by_time_loop(sorted_logs, i + 1,
                                       Append(clusters, current_cluster), <<log>>)

\* _cluster_by_time (event_clustering.py:41-66)
cluster_by_time(logs) == cluster_by_time_loop(SortByTs(logs), 1, <<>>, <<>>)

\* The key of a log in _cluster_by_attributes (event_clustering.py:76-100)
attribute_key(log) ==
    LET key_parts ==
              (IF log.ip # "" THEN <<<<"ip", log.ip>>>> ELSE <<>>)
           \o (IF log.user # "" THEN <<<<"user", log.user>>>> ELSE <<>>)
           \o (IF log.category # "" THEN <<<<"category", log.category>>>> ELSE <<>>)
           \o (IF log.event_type_hint # "" THEN <<<<"type", log.event_type_hint>>>> ELSE <<>>)
    IN  IF key_parts # <<>>
           THEN SubSeq(key_parts, 1, Min(3, Len(key_parts)))
           ELSE <<<<"unknown", "">>>>

\* The keys of attribute_groups in insertion order
RECURSIVE attribute_keys(_, _, _)
attribute_keys(logs, i, keys) ==
    IF i > Len(logs) THEN keys
    ELSE IF \E k \in DOMAIN keys : keys[k] = attribute_key(logs[i])
         THEN attribute_keys(logs, i + 1, keys)
         ELSE attribute_keys(logs, i + 1, Append(keys, attribute_key(logs[i])))

\* _cluster_by_attributes (event_clustering.py:68-102)
cluster_by_attributes(logs) ==
    LET keys == attribute_keys(logs, 1, <<>>)
    IN  [k \in DOMAIN keys |->
            LET same_key(log) == attribute_key(log) = keys[k]
            IN  SelectSeq(logs, same_key)]

\* A threshold that lets every group through.
large_enough_from_one(cluster_logs) == Len(cluster_logs) >= 1

\* len(cluster_logs) >= 2 (event_clustering.py:35)
large_enough(cluster_logs) == Len(cluster_logs) >= 2

\* The groups of all time clusters, in the order the loops of cluster_events
\* visit them (event_clustering.py:31-34)
RECURSIVE attribute_clusters_of(_, _)
attribute_clusters_of(time_clusters, i) ==
    IF i > Len(time_clusters) THEN <<>>
    ELSE cluster_by_attributes(time_clusters[i]) \o attribute_clusters_of(time_clusters, i + 1)

\* cluster_events with ids numbered from 1 in every call
cluster_events_numbered_per_call(logs, counter) ==
    LET groups == attribute_clusters_of(cluster_by_time(logs), 1)
        kept == SelectSeq(groups, large_enough)
    IN  [i \in DOMAIN kept |->
            [cluster_id |-> i,
             related_events |-> [j \in DOMAIN kept[i] |-> kept[i][j].id]]]

\* cluster_events (event_clustering.py:15-39) with _create_cluster
\* (event_clustering.py:104-146): the clusters returned, each with the number
\* in its cluster_id and its related_events.
cluster_events(logs, counter) ==
    LET groups == attribute_clusters_of(cluster_by_time(logs), 1)
        kept == SelectSeq(groups, large_enough)
    IN  [i \in DOMAIN kept |->
            [cluster_id |-> counter + i,
             related_events |-> [j \in DOMAIN kept[i] |-> kept[i][j].id]]]

EventInit ==
    /\ e_logs = {}
    /\ e_counter = 0
    /\ e_passes = 0
    /\ e_clusters = NoOut
    /\ e_issued = <<>>

\* The caller collects one more classified log.
AddLog ==
    /\ \E log \in LogFixtures \ e_logs : e_logs' = e_logs \cup {log}
    /\ UNCHANGED <<e_counter, e_passes, e_clusters, e_issued>>

\* cluster_events(logs, classifications) on the instance
ClusterEvents ==
    /\ e_passes < MaxPasses
    /\ e_passes' = e_passes + 1
    /\ e_clusters' = [status |-> "ok", logs |-> e_logs, first_id |-> e_counter + 1,
                      clusters |-> cluster_events(e_logs, e_counter)]
    /\ e_counter' = e_counter + Len(cluster_events(e_logs, e_counter))
    /\ e_issued' = e_issued \o [i \in DOMAIN cluster_events(e_logs, e_counter) |->
                                  cluster_events(e_logs, e_counter)[i].cluster_id]
    /\ UNCHANGED e_logs

EventNext == AddLog \/ ClusterEvents

-----------------------------------------------------------------------------
Control == StoryInit /\ PrepInit /\ UploadInit

\* The functions of the scoring libraries, not called.
RiskIdle == RiskInit /\ r_anomaly = -1
-----------------------------------------------------------------------------
(* LogProcessor.validate_event_data (service/clustering/utils.py and       *)
(* facade/clustering/utils.py).  An address is the sequence of the numbers *)
(* between its dots, a text that is no dotted number is <<-1>>.  A time-   *)
(* stamp is an hour count with the zone suffix it was written with;        *)
(* parsing_confidence is in 1/100000, -1 when the key is absent and -2     *)
(* when its value is no number.                                            *)

\* datetime.now(timezone.utc), in hours
NowUtc == 10

\* the offset of Asia/Seoul, used for naive timestamps (utils.py:28)
KstOffset == 9

Addresses == {<<10, 0, 0, 5>>, <<0, 0, 0, 0>>, <<256, 1, 1, 1>>, <<-1>>}
Timestamps ==
    [h : {3, 12}, tz : {"naive", "Z", "+09:00"}] \cup {[h |-> 0, tz |-> "bad"]}
Confidences == {-2, -1, 100000, 95000}
EntityShapes == {"dict", "partial", "none", "list"}

EventData ==
    [complete : BOOLEAN, ts : Timestamps, src_ip : Addresses, dst_ip : Addresses,
     parsing_confidence : Confidences, entities : EntityShapes]

NoRecord == [complete |-> FALSE, ts |-> [h |-> 0, tz |-> "none"], src_ip |-> <<>>,
             dst_ip |-> <<>>, parsing_confidence |-> -1, entities |-> "none"]

\* ipaddress.IPv4Address(val) does not raise
valid_v4(ip) == Len(ip) = 4 /\ \A i \in 1..4 : ip[i] \in 0..255

\* _parse_iso_aware: the UTC hour of a timestamp, naive ones taken as KST
parse_iso_aware(ts) ==
    IF ts.tz = "Z" THEN ts.h ELSE ts.h - KstOffset

\* _coerce_ipv4 without the confidence penalty
coerce_ipv4_keep_confidence(event_data, key) ==
    IF valid_v4(event_data[key]) THEN event_data
    ELSE [event_data EXCEPT ![key] = <<0, 0, 0, 0>>]

\* LogProcessor._coerce_ipv4 (service/clustering/utils.py:32-42)
coerce_ipv4(event_data, key) ==
    IF valid_v4(event_data[key]) THEN event_data
    ELSE LET pc == event_data.parsing_confidence
         IN  [event_data EXCEPT
                 ![key] = <<0, 0, 0, 0>>,
                 !.parsing_confidence =
                     IF pc = -2 THEN 70000
                     ELSE ((IF pc = -1 THEN 100000 ELSE pc) * 7) \div 10]

\* LogProcessor.validate_event_data of service/clustering
\* (service/clustering/utils.py:45-76): the value returned and the dict left
validate_event_data(event_data) ==
    IF ~event_data.complete
       THEN [ok |-> FALSE, record |-> event_data]
    ELSE IF event_data.ts.tz = "bad" \/ parse_iso_aware(event_data.ts) > NowUtc
       THEN [ok |-> FALSE, record |-> event_data]
    ELSE LET stamped == [event_data EXCEPT
                            !.ts = [h |-> parse_iso_aware(event_data.ts), tz |-> "+00:00"]]
             coerced == coerce_ipv4(coerce_ipv4(stamped, "src_ip"), "dst_ip")
         IN  IF coerced.entities = "list"
                THEN [ok |-> FALSE, record |-> coerced]
                ELSE [ok |-> TRUE, record |-> [coerced EXCEPT !.entities = "dict"]]

\* LogProcessor.validate_event_data of facade/clustering
\* (facade/clustering/utils.py:24-54); local is the offset of the zone the
\* process runs in, datetime.now() being naive.  A "Z" suffix makes
\* fromisoformat raise ValueError before Python 3.11 and gives an aware value
\* after it, whose comparison with datetime.now() raises TypeError.
facade_validate_event_data(event_data, local, z_parses) ==
    LET ts == event_data.ts
    IN  IF ~event_data.complete
           THEN [ok |-> FALSE, raised |-> FALSE, record |-> event_data]
        ELSE IF ts.tz = "bad" \/ (ts.tz = "Z" /\ ~z_parses)
           THEN [ok |-> FALSE, raised |-> FALSE, record |-> event_data]
        ELSE IF ts.tz = "Z"
           THEN [ok |-> FALSE, raised |-> TRUE, record |-> event_data]
        ELSE IF ts.h > NowUtc + local
           THEN [ok |-> FALSE, raised |-> FALSE, record |-> event_data]
        ELSE IF ~valid_v4(event_data.src_ip) \/ ~valid_v4(event_data.dst_ip)
           THEN [ok |-> FALSE, raised |-> FALSE, record |-> event_data]
        ELSE IF event_data.entities = "list"
           THEN [ok |-> FALSE, raised |-> FALSE, record |-> event_data]
        ELSE [ok |-> TRUE, raised |-> FALSE,
              record |-> [event_data EXCEPT
                             !.entities = IF @ = "partial" THEN "dict" ELSE @]]

ValidateInit ==
    /\ v_in = NoRecord
    /\ v_record = NoRecord
    /\ v_out = NoOut

\* The loader takes one event dict from the JSON file
\* (service/clustering/data_loader.py:69, 88).
LoadEventData ==
    /\ v_in = NoRecord
    /\ \E d \in EventData : v_in' = d /\ v_record' = d
    /\ UNCHANGED v_out

ValidateEventData ==
    /\ v_in # NoRecord
    /\ v_out = NoOut
    /\ LET r == validate_event_data(v_record)
       IN  /\ v_out' = [status |-> IF r.ok THEN "accepted" ELSE "rejected",
                        variant |-> "service"]
           /\ v_record' = r.record
    /\ UNCHANGED v_in

FacadeValidateEventData ==
    /\ v_in # NoRecord
    /\ v_out = NoOut
    /\ \E local \in {0, KstOffset}, z_parses \in BOOLEAN :
          LET r == facade_validate_event_data(v_record, local, z_parses)
          IN  /\ v_out' = [status |-> IF r.raised THEN "raise"
                                      ELSE IF r.ok THEN "accepted" ELSE "rejected",
                           variant |-> "facade"]
              /\ v_record' = r.record
    /\ UNCHANGED v_in

ValidateNext ==
    \/ LoadEventData
    \/ ValidateEventData
    \/ FacadeValidateEventData

-----------------------------------------------------------------------------
(* SlidingCounter, realtime_detector.py                                    *)

\* BurstDetector(window_sec=300) as EnsembleDetector builds it.
burst_window_sec == 300

\* Timestamps a client may put on an event, in epoch seconds.
EventTimes == {1000, 1100, 1400, 1500}

\* Calls of add on one key.
MaxAdds == 4

\* The while loop of SlidingCounter.add: entries leave at the head only, and
\* only while the head is older than the cutoff.
RECURSIVE popleft_while(_, _)
popleft_while(dq, cutoff) ==
    IF dq # <<>> /\ Head(dq) < cutoff THEN popleft_while(Tail(dq), cutoff) ELSE dq

\* SlidingCounter.add(key, ts) on the deque of the key.
SlidingCounter_add(dq, ts) == popleft_while(Append(dq, ts), ts - burst_window_sec)

\* SlidingCounter.rate_per_sec(key, ref_ts), in events per window: the entries
\* at or after the cutoff, wherever they stand in the deque.
rate_per_sec(dq, ref_ts) ==
    Cardinality({i \in DOMAIN dq : dq[i] >= ref_ts - burst_window_sec})

WindowInit ==
    /\ w_events = <<>>
    /\ w_ts = 0
    /\ w_adds = 0

\* One call of add with the timestamp of an event.
SlidingAdd ==
    /\ w_adds < MaxAdds
    /\ \E ts \in EventTimes :
          /\ w_events' = SlidingCounter_add(w_events, ts)
          /\ w_ts' = ts
    /\ w_adds' = w_adds + 1

WindowNext == SlidingAdd

-----------------------------------------------------------------------------
(* BurstDetector.update of one key from two worker threads                 *)

\* Worker threads of the server: detect and detect_unified are plain
\* functions, which the framework runs on a thread pool.
Threads == {"t1", "t2"}

\* Means are kept in tenths of an event per window.
MeanScale == 10

\* EWMAState.var = 1e-6 per second squared, in 1/500 of a squared event per
\* window: 1e-6 * 300 * 300 * 500.
VarInit == 45

\* EWMAState()
NoState == [mean |-> 0, var |-> VarInit, initialized |-> FALSE]

\* EWMABaseline.update_and_z(key, value), as the state it leaves: st is the
\* state object at the time of the assignment, seen what the lines before the
\* assignment read from it.  alpha_mean = alpha_var = 0.2; the floor of 1e-9
\* on the variance is below one unit and never binds.
update_and_z(st, seen, value) ==
    IF ~seen.initialized
    THEN [mean |-> MeanScale * value, var |-> VarInit, initialized |-> TRUE]
    ELSE [st EXCEPT
            !.mean = (4 * seen.mean + MeanScale * value) \div 5,
            !.var = Max((4 * seen.var) \div 5
                        + (MeanScale * value - seen.mean) * (MeanScale * value - seen.mean), 0)]

\* BurstDetector.update(key, ts) run without interruption.  The drift check
\* compares two baselines that are equal until their second update, so it
\* asks for no reset during the first two updates of a key.
BurstDetector_update(window, st, ts) ==
    LET w == SlidingCounter_add(window, ts)
    IN  [window |-> w, state |-> update_and_z(st, st, rate_per_sec(w, ts))]

IdleThread == [pc |-> "idle", ts |-> 0, rps |-> 0, seen |-> NoState]

DetectInit ==
    /\ d_window = <<>>
    /\ d_state = NoState
    /\ d_thr = [t \in Threads |-> IdleThread]

\* A request with one event for the key reaches a worker thread.
DetectReceive(t) ==
    /\ d_thr[t].pc = "idle"
    /\ \E ts \in EventTimes : d_thr' = [d_thr EXCEPT ![t].pc = "add", ![t].ts = ts]
    /\ UNCHANGED <<d_window, d_state>>

\* self.window.add(key, ts)
ThreadAdd(t) ==
    /\ d_thr[t].pc = "add"
    /\ d_window' = SlidingCounter_add(d_window, d_thr[t].ts)
    /\ d_thr' = [d_thr EXCEPT ![t].pc = "rate"]
    /\ UNCHANGED d_state

\* rps = self.window.rate_per_sec(key, ref_ts=ts)
ThreadRate(t) ==
    /\ d_thr[t].pc = "rate"
    /\ d_thr' = [d_thr EXCEPT ![t].pc = "read", ![t].rps = rate_per_sec(d_window, d_thr[t].ts)]
    /\ UNCHANGED <<d_window, d_state>>

\* update_and_z up to its assignment: reads st.initialized, st.mean, st.var.
ThreadRead(t) ==
    /\ d_thr[t].pc = "read"
    /\ d_thr' = [d_thr EXCEPT ![t].pc = "write", ![t].seen = d_state]
    /\ UNCHANGED <<d_window, d_state>>

\* The assignment of update_and_z.
ThreadWrite(t) ==
    /\ d_thr[t].pc = "write"
    /\ d_state' = update_and_z(d_state, d_thr[t].seen, d_thr[t].rps)
    /\ d_thr' = [d_thr EXCEPT ![t].pc = "done"]
    /\ UNCHANGED d_window

DetectNext ==
    \E t \in Threads :
        \/ DetectReceive(t)
        \/ ThreadAdd(t)
        \/ ThreadRate(t)
        \/ ThreadRead(t)
        \/ ThreadWrite(t)

-----------------------------------------------------------------------------
(* stream and stream_unified, router.py                                    *)

Sockets == {"ws1", "ws2", "ws3"}
Endpoints == {"/stream", "/stream/unified"}

\* What a client sends as one message: an event with an ISO-8601 timestamp,
\* or one whose timestamp string is no date.
Messages == {"event", "bad_timestamp"}

\* Messages answered on one connection.
MaxMessages == 2

NoConn == [state |-> "none", endpoint |-> "", served |-> 0, ended |-> ""]

StreamInit ==
    /\ k_conn = [ws \in Sockets |-> NoConn]
    /\ active_sockets_legacy = <<>>
    /\ active_sockets_unified = <<>>

\* list.remove(ws): the first occurrence leaves the list.
RECURSIVE remove(_, _)
remove(list, ws) ==
    IF list = <<>> THEN <<>>
    ELSE IF Head(list) = ws THEN Tail(list)
    ELSE <<Head(list)>> \o remove(Tail(list), ws)

InList(list, ws) == \E i \in DOMAIN list : list[i] = ws

\* What the body of the loop raises for a message, "" for nothing.
\* infer_one parses a string timestamp with fromisoformat; ingest builds a
\* SecurityEvent from every dict, with fields the class does not have.
stream_raises(endpoint, msg) ==
    IF msg = "bad_timestamp" THEN "ValueError"
    ELSE IF endpoint = "/stream/unified" THEN "TypeError"
    ELSE ""

\* await ws.accept(); active_sockets.append(ws)
StreamAccept(ws) ==
    /\ k_conn[ws].state = "none"
    /\ \E ep \in Endpoints :
          /\ k_conn' = [k_conn EXCEPT ![ws].state = "open", ![ws].endpoint = ep]
          /\ IF ep = "/stream"
             THEN /\ active_sockets_legacy' = Append(active_sockets_legacy, ws)
                  /\ UNCHANGED active_sockets_unified
             ELSE /\ active_sockets_unified' = Append(active_sockets_unified, ws)
                  /\ UNCHANGED active_sockets_legacy

\* One turn of the loop: receive_json, infer_one or ingest, send_json.  An
\* exception other than WebSocketDisconnect leaves the handler uncaught and
\* the server closes the connection.
StreamMessage(ws) ==
    /\ k_conn[ws].state = "open"
    /\ k_conn[ws].served < MaxMessages
    /\ \E msg \in Messages :
          LET err == stream_raises(k_conn[ws].endpoint, msg)
          IN  k_conn' = IF err = ""
                        THEN [k_conn EXCEPT ![ws].served = @ + 1]
                        ELSE [k_conn EXCEPT ![ws].state = "closed", ![ws].ended = err]
    /\ UNCHANGED <<active_sockets_legacy, active_sockets_unified>>

\* The client goes away: receive_json raises WebSocketDisconnect and the
\* except clause removes the socket from the list of its endpoint.
StreamDisconnect(ws) ==
    /\ k_conn[ws].state = "open"
    /\ k_conn' = [k_conn EXCEPT ![ws].state = "closed", ![ws].ended = "WebSocketDisconnect"]
    /\ IF k_conn[ws].endpoint = "/stream"
       THEN /\ active_sockets_legacy' =
                  IF InList(active_sockets_legacy, ws)
                  THEN remove(active_sockets_legacy, ws) ELSE active_sockets_legacy
            /\ UNCHANGED active_sockets_unified
       ELSE /\ active_sockets_unified' =
                  IF InList(active_sockets_unified, ws)
                  THEN remove(active_sockets_unified, ws) ELSE active_sockets_unified
            /\ UNCHANGED active_sockets_legacy

StreamNext ==
    \E ws \in Sockets :
        \/ StreamAccept(ws)
        \/ StreamMessage(ws)
        \/ StreamDisconnect(ws)

rtVars == <<windowVars, detectVars, streamVars>>
RtIdle == WindowInit /\ DetectInit /\ StreamInit

libVars == <<riskVars, scoreVars, eventVars, validateVars, rtVars>>
LibIdle == RiskIdle /\ ScoreInit /\ EventInit /\ ValidateInit /\ RtIdle

vars == <<storyVars, prepVars, uploadVars, bridgeVars, clusterVars, libVars>>

\* The engine as the router builds it.
BridgeIdle == BridgeInit /\ b_ca = "default"

\* The analyzer as ClusterAnalyzer() builds it.
ClusterIdle == ClusterInit /\ c_config = DEFAULT_CONFIG

\* The narrative generator, started with or without an earlier narrative.
InitStory == Control /\ LibIdle /\ BridgeIdle /\ ClusterIdle /\ DiskInit({NoFile, OldStory}, {OldFile}, {OldFile})
SpecStory == InitStory /\ [][StoryNext /\ UNCHANGED <<prepVars, uploadVars, bridgeVars, clusterVars, libVars>>]_vars

\* The preprocessor handlers.
InitBatch == Control /\ LibIdle /\ BridgeIdle /\ ClusterIdle /\ DiskInit({NoFile}, {NoFile}, {NoFile})
SpecBatch == InitBatch /\ [][PrepNext /\ UNCHANGED <<storyVars, uploadVars, bridgeVars, clusterVars, libVars>>]_vars

\* One POST /upload.
InitUpload == Control /\ LibIdle /\ BridgeIdle /\ ClusterIdle /\ DiskInit({NoFile, OldStory}, {NoFile, OldFile}, {NoFile, OldFile})
SpecUpload == InitUpload /\ [][UploadNext /\ UNCHANGED <<bridgeVars, clusterVars, libVars>>]_vars

\* The engine, with the default or with an injected cluster analyzer.
InitBridge == Control /\ LibIdle /\ BridgeInit /\ ClusterIdle /\ DiskInit({NoFile}, {NoFile}, {NoFile})
SpecBridge ==
    InitBridge /\ [][BridgeNext /\ UNCHANGED <<storyVars, prepVars, uploadVars, clusterVars, libVars>>]_vars

\* score_groups over lists of events, with and without an anomaly lookup.
InitRisk ==
    Control /\ BridgeIdle /\ ClusterIdle /\ RiskInit /\ ScoreInit /\ EventInit /\ ValidateInit
        /\ RtIdle
        /\ DiskInit({NoFile}, {NoFile}, {NoFile})
SpecRisk ==
    InitRisk /\ [][RiskNext /\ UNCHANGED <<storyVars, prepVars, uploadVars, bridgeVars,
                                          clusterVars, scoreVars, eventVars, validateVars, rtVars>>]_vars

\* compute_score over cluster dicts.
InitScore == Control /\ LibIdle /\ BridgeIdle /\ ClusterIdle /\ DiskInit({NoFile}, {NoFile}, {NoFile})
SpecScore ==
    InitScore /\ [][ScoreNext /\ UNCHANGED <<storyVars, prepVars, uploadVars, bridgeVars,
                                            clusterVars, riskVars, eventVars, validateVars, rtVars>>]_vars

\* cluster_events over sets of classified logs, called up to MaxPasses times.
InitEvent == Control /\ LibIdle /\ BridgeIdle /\ ClusterIdle /\ DiskInit({NoFile}, {NoFile}, {NoFile})
SpecEvent ==
    InitEvent /\ [][EventNext /\ UNCHANGED <<storyVars, prepVars, uploadVars, bridgeVars,
                                            clusterVars, riskVars, scoreVars, validateVars, rtVars>>]_vars

\* validate_event_data over one event dict, in either variant.
InitValidate == Control /\ LibIdle /\ BridgeIdle /\ ClusterIdle /\ DiskInit({NoFile}, {NoFile}, {NoFile})
SpecValidate ==
    InitValidate /\ [][ValidateNext /\ UNCHANGED <<storyVars, prepVars, uploadVars, bridgeVars,
                                                  clusterVars, riskVars, scoreVars, eventVars, rtVars>>]_vars

\* SlidingCounter.add over sequences of up to MaxAdds timestamps.
InitWindow == Control /\ LibIdle /\ BridgeIdle /\ ClusterIdle /\ DiskInit({NoFile}, {NoFile}, {NoFile})
SpecWindow ==
    InitWindow /\ [][WindowNext /\ UNCHANGED <<storyVars, prepVars, uploadVars, bridgeVars,
                                              clusterVars, riskVars, scoreVars, eventVars,
                                              validateVars, detectVars, streamVars>>]_vars

\* Two requests for one key on a new engine, each on its own worker thread.
InitDetect == Control /\ LibIdle /\ BridgeIdle /\ ClusterIdle /\ DiskInit({NoFile}, {NoFile}, {NoFile})
SpecDetect ==
    InitDetect /\ [][DetectNext /\ UNCHANGED <<storyVars, prepVars, uploadVars, bridgeVars,
                                              clusterVars, riskVars, scoreVars, eventVars,
                                              validateVars, windowVars, streamVars>>]_vars

\* Connections to the two stream endpoints.
InitStream == Control /\ LibIdle /\ BridgeIdle /\ ClusterIdle /\ DiskInit({NoFile}, {NoFile}, {NoFile})
SpecStream ==
    InitStream /\ [][StreamNext /\ UNCHANGED <<storyVars, prepVars, uploadVars, bridgeVars,
                                              clusterVars, riskVars, scoreVars, eventVars,
                                              validateVars, windowVars, detectVars>>]_vars

\* The Cluster Analyzer over sets of events, under each configuration.
InitCluster == Control /\ LibIdle /\ BridgeIdle /\ ClusterInit /\ DiskInit({NoFile}, {NoFile}, {NoFile})
SpecCluster ==
    InitCluster /\ [][ClusterNext /\ UNCHANGED <<storyVars, prepVars, uploadVars, bridgeVars, libVars>>]_vars

-----------------------------------------------------------------------------
(* Properties of the narrative generator                                   *)

\* Every iteration of the running or finished request ended in an upstream
\* failure: chat_completion raised.
AllUpstream ==
    /\ g_outcomes # <<>>
    /\ \A i \in 1..Len(g_outcomes) : g_outcomes[i][2] \in {"upstream", "quota"}

\* C1: if every attempt of a narrative request fails with an upstream failure,
\* the request never writes the narrative file, and once all max_retries + 1
\* attempts are used up it has ended with the fatal error.
C1_UpstreamExhaustionIsFatal ==
    AllUpstream =>
        /\ g_wrote = 0
        /\ g_pc \in {"loop", "fatal"}
        /\ Len(g_outcomes) = max_retries + 1 => g_pc = "fatal"

\* C1 witness: a request whose four attempts all failed upstream has ended
\* fatally and left the file of an earlier run as it was.
C1_Witness ==
    /\ AllUpstream
    /\ Len(g_outcomes) = max_retries + 1
    /\ g_calls = max_retries + 1
    /\ g_pc = "fatal"
    /\ storyFile = OldStory

\* C2: the narrative file holds a narrative only if that narrative satisfies
\* schema A: all required keys, a non-empty evidence array, a non-empty array
\* of numbered actions, a list of affected scope, and both scores in range.
C2_OnlySchemaAPersisted ==
    storyFile.kind = "story" =>
        /\ storyFile.top = "object" /\ storyFile.hasKey /\ storyFile.arr = "one"
        /\ RequiredKeys \subseteq storyFile.keys
        /\ storyFile.evidence = "nonempty"
        /\ storyFile.actions = "numbered"
        /\ storyFile.scope # "notlist"
        /\ storyFile.scoreNum /\ storyFile.score \in 0..100
        /\ storyFile.accNum /\ storyFile.acc \in 0..100

-----------------------------------------------------------------------------
(* Properties of the preprocessor handlers                                 *)

\* A file that the upload contract rejects: disallowed extension, empty, or
\* not decodable as text.
Unacceptable(f) == f.ext \notin ALLOWED_EXTS \/ f.body \in {"empty", "binary"}

\* C7: a call of ingest or of the Processor Agent over files of which one has
\* a disallowed extension, is empty or is undecodable ends with an error, and
\* no file is skipped silently.
C7_BadFileFailsRequest ==
    (/\ p_op \in {"ingest", "run_preprocessor_from_files"}
     /\ \E i \in 1..Len(p_files) : Unacceptable(p_files[i]))
        => (p_status # "ok" /\ p_skipped = {})

\* C8: an ingest_batch call over files with allowed extensions succeeds even
\* if a parser raised on one of them, and every file whose rows parse
\* contributes its events.
C8_BatchSurvivesParserFailure ==
    (/\ p_op = "ingest_batch"
     /\ \A i \in 1..Len(p_files) : p_files[i].ext \in ALLOWED_EXTS
     /\ \E i \in 1..Len(p_files) : rows_from_file(p_files[i]).out = "raise")
        => /\ p_status = "ok"
           /\ p_from = {i \in 1..Len(p_files) : rows_from_file(p_files[i]).events}

-----------------------------------------------------------------------------
(* Properties of POST /upload                                              *)

\* C3: the stages of an upload call are entered in the order preprocess,
\* cluster, risk, narrate, readback; once a stage has raised the call has
\* failed at that stage, no later stage was entered and no result is returned;
\* a result is returned only after all five stages ran without a failure.
C3_StagesInOrderFailureAborts ==
    /\ Len(u_trace) <= Len(Stages)
    /\ \A i \in 1..Len(u_trace) : u_trace[i] = Stages[i]
    /\ u_failed # "none" =>
          /\ u_pc = "failed"
          /\ u_trace[Len(u_trace)] = u_failed
          /\ u_result = NoResult
          /\ u_body = ErrorBody
    /\ (u_result # NoResult \/ u_pc = "returned") =>
          /\ u_trace = Stages
          /\ u_failed = "none"

\* C3 witness: the risk stage of a call raised after the cluster stage had
\* written its file; the call failed there and narrate never ran.
C3_Witness ==
    /\ u_pc = "failed"
    /\ u_failed = "risk"
    /\ u_trace = <<"preprocess", "cluster", "risk">>
    /\ clusterFile = [kind |-> "cluster"]
    /\ u_result = NoResult

\* C4: the HTTP response body of a successful upload call is the object with
\* the cluster artifact under json1 and the narrative artifact under json2.
C4_UploadReturnsArtifacts ==
    u_pc = "returned" =>
        u_body = [kind |-> "json", json1 |-> clusterFile, json2 |-> storyFile]

-----------------------------------------------------------------------------
(* Properties of the unified bridge                                        *)

\* C5: an ingest call scores the event, appends it to the buffer of its user,
\* and runs the Cluster Analyzer once over the buffer and marks the buffer
\* flushed exactly if the buffer then holds at least 5 events and the label
\* is medium or high or at least 600 s passed since the last flush; in every
\* other case it runs nothing and reports cluster_triggered false.
C5_IngestScoresAppendsTriggers ==
    b_call.op = "ingest" =>
        LET due == /\ b_call.lenAfter >= 5
                   /\ \/ b_call.label \in {"medium", "high"}
                      \/ b_call.now - b_call.lastBefore >= 600
        IN  /\ b_call.scored
            /\ b_call.appended
            /\ due => /\ Len(b_call.runs) = 1
                      /\ b_call.flushed = {b_call.user}
                      /\ b_call.triggered
            /\ ~due => /\ b_call.runs = <<>>
                       /\ b_call.flushed = {}
                       /\ ~b_call.triggered

\* C6: no call of the engine runs the Cluster Analyzer over a buffer of fewer
\* than 5 events, the event just ingested included.
C6_NoClusterRunBelowMinimum ==
    b_call.op # "none" =>
        \A i \in 1..Len(b_call.runs) : b_call.runs[i] >= 5

\* C6 witness: a high-labelled event became the 4th event of a buffer and no
\* cluster run took place.
C6_Witness ==
    /\ b_call.op = "ingest"
    /\ b_call.label = "high"
    /\ b_call.appended
    /\ b_call.lenAfter = 4
    /\ b_call.runs = <<>>

-----------------------------------------------------------------------------
(* Properties of the Cluster Analyzer                                      *)

\* C9: whenever the analyzed events hold a db_access event with row_count at
\* or above the row threshold and a sensitive object name, and a data_transfer
\* event with blocked = true, analyze_cluster returns metrics with an
\* overall_risk_score of at least 0.6.
C9_DbHeavyBlockedEgressUplift ==
    (/\ c_out # NoOut
     /\ \E d \in c_events : /\ d.type = "db_access"
                             /\ d.row_count >= ExtraAttributes.db_row_threshold
                             /\ d.obj_name \in ExtraAttributes.db_sensitive_names
     /\ \E x \in c_events : x.type = "data_transfer" /\ x.blocked)
        => (c_out.status = "ok" /\ c_out.overall_risk_score >= 60000)

\* analyze_cluster returned metrics in which user_anomaly alone exceeds 0.6
\* and every other axis is at most 0.2.
OnlyUserAnomalyHigh ==
    /\ c_out # NoOut
    /\ c_out.status = "ok"
    /\ c_out.user_anomaly > 600
    /\ c_out.time_concentration <= 200
    /\ c_out.ip_diversification <= 200
    /\ c_out.file_sensitivity <= 200
    /\ c_out.network_threat <= 200

C11_PriorityIsStepOfRisk ==
    (c_out # NoOut /\ c_out.status = "ok") =>
        LET r == c_out.overall_risk_score
            p == c_out.priority_level
        IN  /\ p \in {"CRITICAL", "HIGH", "MEDIUM", "LOW"}
            /\ (p = "CRITICAL") <=> (r >= 80000)
            /\ (p = "HIGH") <=> (60000 <= r /\ r < 80000)
            /\ (p = "MEDIUM") <=> (40000 <= r /\ r < 60000)
            /\ (p = "LOW") <=> (r < 40000)

\* C11 witness: analyze_cluster returned metrics with a risk between 0.8 and
\* 0.9 and the level CRITICAL.
C11_Witness ==
    /\ c_out # NoOut
    /\ c_out.status = "ok"
    /\ c_out.overall_risk_score >= 80000
    /\ c_out.overall_risk_score < 90000
    /\ c_out.priority_level = "CRITICAL"

\* C12: called with an empty event list, the analyze_cluster of
\* service/clustering returns the zero metrics and its detailed analysis
\* returns a result with zero counts; neither raises.
C12_EmptyInputNeverRaises ==
    c_events = {} =>
        /\ (c_out # NoOut /\ c_out # facade_analyze_cluster(c_config, {}))
               => c_out = empty_metrics
        /\ (c_detail # NoOut /\ c_detail.call = "get_detailed_analysis") =>
               /\ c_detail.status = "ok"
               /\ c_detail.event_count = 0
               /\ c_detail.ip_analysis.network_penetration_depth = 0
               /\ ~c_detail.time_analysis.burst_detected

-----------------------------------------------------------------------------
(* Properties of the group risk scorer v0.3                                *)

\* The documented bucket of a returned risk_score, in hundredths.
documented_level(risk_score) ==
    IF risk_score >= 850 THEN "Critical"
    ELSE IF risk_score >= 700 THEN "High"
    ELSE IF risk_score >= 450 THEN "Medium"
    ELSE IF risk_score >= 250 THEN "Low"
    ELSE "Info"

\* C13: every group returned by score_groups has a risk_score within [0, 10]
\* and a risk_level that is the documented threshold bucket of that returned
\* risk_score.
C13_LevelIsBucketOfReturnedScore ==
    r_out # NoOut =>
        \A g \in r_out.groups :
            /\ 0 <= g.risk_score /\ g.risk_score <= 1000
            /\ g.risk_level = documented_level(g.risk_score)

-----------------------------------------------------------------------------
(* Properties of the group risk scorer v0.2                                *)

\* C14: any group whose attack type is RCE or privilege-escalation and whose
\* target asset is high-value (asset score 7 or more) receives a final risk
\* score of at least 5.1.
C14_RceOnHighValueAssetFloored ==
    (/\ s_out # NoOut
     /\ s_out.status = "ok"
     /\ s_cluster.attack_type \in {"RCE", "Privilege Escalation", "privilege-escalation"}
     /\ asset_score(s_cluster.target_asset) >= 7)
        => s_out.risk_score >= 510

-----------------------------------------------------------------------------
(* Resources of a narrative request                                        *)

\* C15: with max_retries = 3, a narrative request in which every call fails
\* has made exactly 4 calls to the LLM backend when it fails.
C15_FourBackendCallsBeforeFailure ==
    (AllUpstream /\ g_pc = "fatal") => g_backend = max_retries + 1

-----------------------------------------------------------------------------
(* Properties of the Event Clusterer                                       *)

\* Two logs of the set are in the same time run: no log from the earlier one
\* up to the one before the later one is followed by a gap of more than the
\* time window.
SameRun(logs, a, b) ==
    LET lo == Min(a.ts, b.ts)
        hi == Max(a.ts, b.ts)
    IN  \A x \in logs :
            (lo <= x.ts /\ x.ts < hi) =>
                \E y \in logs : x.ts < y.ts /\ y.ts - x.ts <= time_window_seconds

\* The time+attribute group of a log, as event ids
GroupOf(logs, a) ==
    {b.id : b \in {x \in logs : SameRun(logs, a, x) /\ attribute_key(x) = attribute_key(a)}}

\* The member sets of the clusters returned
ReturnedMembers ==
    {{e_clusters.clusters[i].related_events[j] :
         j \in DOMAIN e_clusters.clusters[i].related_events} :
     i \in DOMAIN e_clusters.clusters}

\* C16: every AttackCluster returned by cluster_events has at least 2 member
\* events; a time+attribute group of exactly 1 event never becomes a cluster
\* and a group of exactly 2 events always does.
C16_ClustersHaveTwoMembers ==
    e_clusters # NoOut =>
        /\ \A i \in DOMAIN e_clusters.clusters :
               Len(e_clusters.clusters[i].related_events) >= 2
        /\ \A a \in e_clusters.logs :
               LET g == GroupOf(e_clusters.logs, a)
               IN  /\ Cardinality(g) = 1 => g \notin ReturnedMembers
                   /\ Cardinality(g) = 2 => g \in ReturnedMembers

\* C16 witness: one call whose logs hold a group of one event, which is not
\* among the clusters, and a group of two events, which is.
C16_Witness ==
    /\ e_clusters # NoOut
    /\ \E a, b \in e_clusters.logs :
          /\ Cardinality(GroupOf(e_clusters.logs, a)) = 1
          /\ GroupOf(e_clusters.logs, a) \notin ReturnedMembers
          /\ Cardinality(GroupOf(e_clusters.logs, b)) = 2
          /\ GroupOf(e_clusters.logs, b) \in ReturnedMembers

-----------------------------------------------------------------------------
(* Properties of the IP Analyzer                                           *)

\* The (30-minute bucket, src_ip, dst_ip) triples of the internal-to-internal
\* events handed over
InternalHops ==
    {<<e.ts \div 1800, e.src, e.dst>> :
        e \in {x \in c_events : /\ is_internal(c_config, x.src)
                                /\ is_internal(c_config, x.dst)}}

\* C17: internal_to_internal of analyze_network_movement counts the
\* internal-to-internal events once per (src_ip, dst_ip) and 30-minute bucket:
\* events with the same addresses in the same bucket count once, one in
\* another bucket adds one.
C17_InternalHopsCountedOncePerBucket ==
    (c_detail # NoOut /\ c_detail.status = "ok") =>
        c_detail.ip_analysis.internal_to_internal = Cardinality(InternalHops)

-----------------------------------------------------------------------------
(* Properties of validate_event_data                                       *)

\* The record handed over has an address that is no IPv4 literal and is
\* valid otherwise: every required key, a timestamp that parses and is not
\* in the future, entities a dict or None.
OtherwiseValid ==
    /\ v_in.complete
    /\ v_in.ts.tz # "bad"
    /\ parse_iso_aware(v_in.ts) <= NowUtc
    /\ v_in.entities # "list"
    /\ ~valid_v4(v_in.src_ip) \/ ~valid_v4(v_in.dst_ip)

\* parsing_confidence as float(event_data.get("parsing_confidence", 1.0))
\* reads it, 1.0 where that raises
ConfidenceIn == IF v_in.parsing_confidence < 0 THEN 100000 ELSE v_in.parsing_confidence

InvalidAddresses == Cardinality({k \in {"src_ip", "dst_ip"} : ~valid_v4(v_in[k])})

\* C18 as stated: a record with an invalid src_ip or dst_ip is accepted, the
\* invalid address becomes 0.0.0.0 and parsing_confidence is multiplied by
\* 0.7.
C18_AsStated ==
    (v_out # NoOut /\ v_out.variant = "service" /\ OtherwiseValid) =>
        /\ v_out.status = "accepted"
        /\ \A k \in {"src_ip", "dst_ip"} :
              v_record[k] = IF valid_v4(v_in[k]) THEN v_in[k] ELSE <<0, 0, 0, 0>>
        /\ v_record.parsing_confidence * 10 = ConfidenceIn * 7

\* C18, amended: the validate_event_data of service/clustering accepts an
\* otherwise valid record with an invalid src_ip or dst_ip, replaces each
\* invalid address by 0.0.0.0 and multiplies parsing_confidence by 0.7 once
\* per replaced address (0.49 when both are invalid), starting from 1.0 when
\* the value is absent or no number; the validate_event_data of
\* facade/clustering does not accept such a record and leaves it as it was.
C18_CoercionPerAddress ==
    (v_out # NoOut /\ OtherwiseValid) =>
        IF v_out.variant = "service"
           THEN /\ v_out.status = "accepted"
                /\ \A k \in {"src_ip", "dst_ip"} :
                      v_record[k] = IF valid_v4(v_in[k]) THEN v_in[k] ELSE <<0, 0, 0, 0>>
                /\ v_record.parsing_confidence * 100 =
                      IF InvalidAddresses = 2 THEN ConfidenceIn * 49 ELSE ConfidenceIn * 70
           ELSE v_out.status # "accepted" /\ v_record = v_in

\* Both addresses of an accepted record were replaced, its confidence of 1.0
\* is 0.49.
C18_Witness ==
    /\ v_out # NoOut /\ v_out.variant = "service" /\ v_out.status = "accepted"
    /\ OtherwiseValid
    /\ InvalidAddresses = 2
    /\ v_in.parsing_confidence = 100000
    /\ v_record.parsing_confidence = 49000
    /\ v_record.src_ip = <<0, 0, 0, 0>> /\ v_record.dst_ip = <<0, 0, 0, 0>>

-----------------------------------------------------------------------------
(* Properties of the hand-off files of an upload call                      *)

ReadsOf(stage) == {u_reads[i] : i \in {j \in 1..Len(u_reads) : u_reads[j].stage = stage}}

\* C19: within one upload call the risk scorer reads the preprocessed events
\* the preprocess step of the call saved, and narrative generation reads the
\* risk output the risk step of the call saved.
C19_StagesReadWhatTheCallSaved ==
    /\ \A r \in ReadsOf("risk") : r.path = processor_output /\ r.writer = "this"
    /\ \A r \in ReadsOf("narrate") :
          r.path # cluster_output_2 => r.path = risk_DEFAULT_OUT /\ r.writer = "this"

\* C20: the two artifacts an upload call returns were both written during
\* that call and made from what that call saved, also when an earlier or a
\* concurrent upload call wrote the same paths.
C20_ReturnedArtifactsAreTheCallsOwn ==
    u_pc = "returned" =>
        /\ \A r \in ReadsOf("readback") : r.writer = "this"
        /\ \A r \in ReadsOf("narrate") : r.writer = "this"

-----------------------------------------------------------------------------
(* Reach of the levels of the group risk scorer v0.3                       *)

\* The final_score of a group whose base_score is at its cap of 10 when no
\* anomaly score is looked up: 10 * (1 - anomaly_weight), in 1/100000
\* (risk_scorer2.py:129, 137).
TopScoreWithoutAnomaly == (1000000 * 800) \div 1000

\* C29: score_groups without an anomaly-score lookup gives every documented
\* level, "Critical" included, for some input.  The level rises with the
\* final score, so this says that a group at the top of the scale, whose
\* base_score is capped at 10, is "Critical".
C29_CriticalReachedWithoutAnomaly ==
    (r_out # NoOut /\ r_anomaly = -1) =>
        \A g \in r_out.groups :
            g.final_score = TopScoreWithoutAnomaly => g.risk_level = "Critical"

-----------------------------------------------------------------------------
(* Cluster ids of the Event Clusterer                                      *)

\* C30: within one EventClusterer, over every sequence of cluster_events
\* calls, each cluster created gets an id whose number is greater than the
\* numbers of all ids issued before; no id is used twice.
C30_ClusterIdsStrictlyIncrease ==
    /\ \A i, j \in DOMAIN e_issued : i < j => e_issued[i] < e_issued[j]
    /\ \A i \in DOMAIN e_issued : e_issued[i] <= e_counter

\* C30 witness: a second call on the instance created clusters after the
\* first call had created some.
C30_Witness ==
    /\ e_passes = 2
    /\ e_clusters.first_id > 1
    /\ Len(e_clusters.clusters) >= 1
    /\ e_clusters.clusters[1].cluster_id = e_clusters.first_id
    /\ Len(e_issued) > Len(e_clusters.clusters)

-----------------------------------------------------------------------------
(* The Cluster Analyzer under the default configuration                    *)

\* C27: with the default configuration the analyze_cluster and the
\* get_detailed_analysis of service/clustering return, without raising, for
\* every non-empty list of valid events, lists with authentication,
\* db_access or data_transfer events included.
C27_DefaultConfigNeverRaises ==
    (c_config = DEFAULT_CONFIG /\ c_events # {}) =>
        /\ c_out # Raised
        /\ (c_detail # NoOut /\ c_detail.call = "get_detailed_analysis") =>
               c_detail.status = "ok"

-----------------------------------------------------------------------------
(* Properties of the user buffers of the unified bridge                    *)

\* C23: an ingest that fails for an event has changed neither the state of
\* the shared detector nor any user buffer.
C23_FailedIngestChangesNothing ==
    (b_call.op = "ingest" /\ b_call.raised) =>
        /\ ~b_call.scored
        /\ ~b_call.appended
        /\ b_call.user \notin b_poisoned

\* C24: a buffer that was never flushed does not meet the periodic-flush
\* condition before periodic_flush_sec have passed since its creation: a
\* "low" event arriving earlier runs no cluster analysis.  No buffer is older
\* than its engine, which is built at StartTime.
C24_NoPeriodicFlushBeforeInterval ==
    (/\ b_call.op = "ingest"
     /\ b_call.appended
     /\ b_call.label = "low"
     /\ b_call.lastBefore = 0
     /\ b_call.now - StartTime < periodic_flush_sec) =>
        b_call.runs = <<>>

\* The last n elements of a sequence
LastN(seq, n) ==
    IF Len(seq) <= n THEN seq ELSE SubSeq(seq, Len(seq) - n + 1, Len(seq))

\* C25: a cluster run, from ingest, flush_user or flush_all, changes only the
\* last-flush time of the buffer; the buffered events are the same before and
\* after it, and an event leaves a buffer only when an append finds the buffer
\* at capacity, never through a flush or the passing of time.
C25_RunsLeaveBufferedEventsAlone ==
    [][/\ b_rtSeen' = b_rtSeen => b_events' = b_events
       /\ \A u \in UserKeys :
             /\ Len(b_events[u]) < b_cap =>
                   SubSeq(b_events'[u], 1, Len(b_events[u])) = b_events[u]
             /\ Len(b_events[u]) = b_cap =>
                   b_events'[u] \in {b_events[u],
                                     Append(Tail(b_events[u]), b_serial')}
       /\ (b_rtSeen' # b_rtSeen /\ b_call'.runs # <<>>) =>
             /\ b_call'.runs[1] = Len(b_events'[b_call'.user])
             /\ b_events'[b_call'.user] =
                   LastN(Append(b_events[b_call'.user], b_serial'), b_cap)]_vars

\* C25 witness: flush_user ran the analyzer over a buffer, marked it flushed,
\* and the buffer still holds the events analyzed.
C25_Witness ==
    /\ b_call.op = "flush_user"
    /\ b_call.flushed = {b_call.user}
    /\ b_call.runs = <<Len(b_events[b_call.user])>>
    /\ b_last[b_call.user] = b_call.now
    /\ b_events[b_call.user] = b_appended[b_call.user]

\* C26: after any sequence of ingests a buffer never holds more than its
\* capacity (max_events, 400 unless the engine is built with another value),
\* and it holds the newest of the events added to it: an append that would
\* exceed the capacity evicts the oldest events first.
C26_BufferBoundedOldestEvicted ==
    /\ b_cap <= user_buffer_max_events
    /\ \A u \in UserKeys :
          /\ Len(b_events[u]) <= b_cap
          /\ b_events[u] = LastN(b_appended[u], b_cap)

\* C26 witness: an append to a full buffer evicted its oldest event.
C26_Witness ==
    \E u \in UserKeys :
        /\ Len(b_appended[u]) = b_cap + 1
        /\ Len(b_events[u]) = b_cap
        /\ b_events[u][1] = b_appended[u][2]
        /\ b_events[u][b_cap] = b_appended[u][b_cap + 1]

-----------------------------------------------------------------------------
(* Properties of the detector state                                        *)

\* C21: after every insertion of a timestamp ts for a key, whatever was
\* inserted before, the sliding window of the key holds no entry older than
\* ts minus the window length.
C21_WindowHoldsNothingOlderThanHorizon ==
    w_adds > 0 => \A i \in DOMAIN w_events : w_events[i] >= w_ts - burst_window_sec

\* The window and baseline of the key after the event of thread a and then
\* the event of thread b were applied one after the other to a new engine.
AppliedInOrder(a, b) ==
    LET first == BurstDetector_update(<<>>, NoState, d_thr[a].ts)
    IN  BurstDetector_update(first.window, first.state, d_thr[b].ts)

\* C22: when two requests report events for the same key concurrently, the
\* window and the baseline of the key end as they would had the two events
\* been applied one after the other in some order.
C22_ConcurrentUpdatesAreSerial ==
    (\A t \in Threads : d_thr[t].pc = "done") =>
        \E a, b \in Threads :
            /\ a # b
            /\ [window |-> d_window, state |-> d_state] = AppliedInOrder(a, b)

\* C28: the registries of active connections hold open connections only: a
\* connection that has ended is in neither list.
C28_RegistryHoldsOpenConnectionsOnly ==
    \A ws \in Sockets :
        (InList(active_sockets_legacy, ws) \/ InList(active_sockets_unified, ws)) =>
            k_conn[ws].state = "open"

====
